---- MODULE Spec2Model ----
(***************************************************************************)
(* TrafficWatch: the polling-and-aggregation engine of the two servers of  *)
(* the repository,                                                         *)
(*   "crossings" : src/unnamed/part_001 (Nicosia Crossing Monitor v3),     *)
(*   "server"    : src/server.js        (TrafficWatch v2).                 *)
(* One Node.js process: main() runs the startup cycle, installs the        *)
(* recurring timer, and every await of an upstream call is a point where   *)
(* the event loop may run another callback.  An action of this module is   *)
(* one run-to-completion turn of the event loop.                           *)
(***************************************************************************)
EXTENDS Integers, Sequences, FiniteSets, TLC

VARIABLES
  env,              \* the process environment: whether TOMTOM_KEY is set
  ver,              \* which of the two programs runs
  pc,               \* position of main(): "start", "startup", "running", "exited"
  clock,            \* Date.now(), in milliseconds from the first instant of the behaviour
  nextFire,         \* due time of the setInterval timer (meaningful when pc = "running")
  cycles,           \* the checkAll() invocations so far, one record each
  readings,         \* readings[r]: the in-memory sequence of route r
  files,            \* files[r]: the log file of route r (whether it exists, its lines)
  weatherCache,     \* <<>> (null) or <<snapshot>>
  weatherLastFetch, \* Date.now() at the last successful weather fetch
  errors,           \* number of err(...) reports so far
  hist,             \* history of the run: counters the claims are stated over
  ev,               \* the event-loop turn that produced this state
  probe             \* input and result of a pure function under test

vars == <<env, ver, pc, clock, nextFire, cycles, readings, files, weatherCache,
          weatherLastFetch, errors, hist, ev, probe>>

----------------------------------------------------------------------------
(* Bounds of the model.                                                    *)

\* Poll cycles started in one behaviour (the startup cycle included).
MaxCycles == 3
\* Largest value of the clock, in polling intervals.
MaxIntervals == 2
\* Routing calls answered in one behaviour.
MaxPolls == 5
\* Upstream failures (routing, speed, weather) and log-write failures in one behaviour.
MaxFaults == 1
\* Largest |delay| given to the classifier under test.
MaxDelay == 14

\* Longest sequence of Readings given to the aggregation under test.
MaxHistory == 2
\* The process restarts the restart specification follows.
MaxRestarts == 1
\* The longest sequence the chart window is taken from.
MaxWindow == 14

----------------------------------------------------------------------------
(* JavaScript values.  A number-valued field is a record [k, v]: a number, *)
(* NaN, or undefined (the field is absent from the JSON object).           *)

Num(n) == [k |-> "num", v |-> n]
NaN    == [k |-> "NaN", v |-> 0]
UNDEF  == [k |-> "undefined", v |-> 0]
IsNum(x) == x.k = "num"

\* a ?? b
Coalesce(a, b) == IF a.k = "undefined" THEN b ELSE a

\* Math.round(x / 60): Math.round rounds halves up, undefined / 60 is NaN.
RoundDiv60(x) == IF IsNum(x) THEN Num((x.v + 30) \div 60) ELSE NaN

\* +(x / 1000).toFixed(1), kept in tenths of a kilometre.
KmTenths(x) == IF IsNum(x) THEN Num((x.v + 50) \div 100) ELSE NaN

\* a - b
JsSub(a, b) == IF IsNum(a) /\ IsNum(b) THEN Num(a.v - b.v) ELSE NaN

\* Math.max(0, x): NaN when x is NaN.
JsMax0(x) == IF IsNum(x) THEN Num(IF x.v > 0 THEN x.v ELSE 0) ELSE NaN

\* x <= n: false when x is NaN.
JsLe(x, n) == IsNum(x) /\ x.v <= n

\* x === n
JsIs(x, n) == IsNum(x) /\ x.v = n

\* Math.round(x) of a whole number or of undefined (NaN).
JsRound(x) == IF IsNum(x) THEN x ELSE NaN

----------------------------------------------------------------------------
(* Configuration.                                                          *)

Versions == {"crossings", "server"}

\* CROSSINGS, flattened in the order checkAll visits it (ci, then ri).
CROSSINGS ==
  << [ci |-> 0, ri |-> 0, crossing |-> "Agios Dometios / Metehan", name |-> "South to North",
      logFile |-> "log-metehan-s2n.csv", origin |-> "South", dest |-> "North"],
     [ci |-> 0, ri |-> 1, crossing |-> "Agios Dometios / Metehan", name |-> "North to South",
      logFile |-> "log-metehan-n2s.csv", origin |-> "North", dest |-> "South"],
     [ci |-> 1, ri |-> 0, crossing |-> "Astromeritis / Zodia", name |-> "South to North",
      logFile |-> "log-astromeritis-s2n.csv", origin |-> "South", dest |-> "North"],
     [ci |-> 1, ri |-> 1, crossing |-> "Astromeritis / Zodia", name |-> "North to South",
      logFile |-> "log-astromeritis-n2s.csv", origin |-> "North", dest |-> "South"] >>

\* config.routes of server.js (the default of the ROUTES variable).
config_routes ==
  << [ci |-> 0, ri |-> 0, crossing |-> "", name |-> "South to North",
      logFile |-> "log-south-to-north.csv", origin |-> "South", dest |-> "North"],
     [ci |-> 0, ri |-> 1, crossing |-> "", name |-> "North to South",
      logFile |-> "log-north-to-south.csv", origin |-> "North", dest |-> "South"] >>

\* The ROUTES array of the README's example: route objects with name,
\* origin and dest, and no logFile.
README_ROUTES ==
  << [ci |-> 0, ri |-> 0, crossing |-> "", name |-> "Outbound",
      origin |-> "Messios, Nicosia", dest |-> "Gesfi Doviz, Metehan"],
     [ci |-> 0, ri |-> 1, crossing |-> "", name |-> "Return",
      origin |-> "Gesfi Doviz, Metehan", dest |-> "Messios, Nicosia"] >>

\* The values of ROUTES considered; the crossings monitor does not read it.
RoutesEnv(v) == IF v = "server" THEN {"default", "readme"} ELSE {"default"}

\* JSON.parse(process.env.ROUTES || JSON.stringify([...])) of server.js,
\* CROSSINGS in the crossings monitor.
ConfigRoutes(v, e) ==
  IF v = "crossings" THEN CROSSINGS
  ELSE IF e.ROUTES = "readme" THEN README_ROUTES ELSE config_routes

\* The routes whose log ensureCsv() reaches: fs.existsSync(undefined) is
\* false and fs.writeFileSync(undefined, ...) throws, which ends the
\* forEach at the first route without a logFile.
HasLogFile(route) == "logFile" \in DOMAIN route
EnsureCsvThrows(v, e) == \E i \in DOMAIN ConfigRoutes(v, e) : ~HasLogFile(ConfigRoutes(v, e)[i])
EnsureCsvReaches(v, e, r) == \A i \in 1 .. r : HasLogFile(ConfigRoutes(v, e)[i])

\* The routes of a process that got past ensureCsv().
RouteList(v) == IF v = "crossings" THEN CROSSINGS ELSE config_routes
Routes(v) == 1 .. Len(RouteList(v))

\* The cap of a route's in-memory sequence.
MAX_READINGS_CROSSINGS == 1000
MAX_READINGS_SERVER == 500
MaxReadings(v) == IF v = "crossings" THEN MAX_READINGS_CROSSINGS ELSE MAX_READINGS_SERVER

\* CONFIG.intervalMin (default '5') * 60 * 1000
INTERVAL_MIN == 5
IntervalMs == INTERVAL_MIN * 60 * 1000

\* The lifetime of the weather cache: 10 * 60 * 1000
WeatherTtlMs == 10 * 60 * 1000

MaxClock == MaxIntervals * IntervalMs

----------------------------------------------------------------------------
(* Upstream responses.  A response is what the network gives one           *)
(* https.get: an error event, or a body that JSON.parse accepts or not.    *)
(* For the routing call the parsed body carries `routes`, each route a     *)
(* `summary` (<<>> when the field is absent).                              *)

Summary(travel, historic, noTraffic, len) ==
  [travelTimeInSeconds |-> travel, historicTrafficTravelTimeInSeconds |-> historic,
   noTrafficTravelTimeInSeconds |-> noTraffic, lengthInMeters |-> len]

NetError == [net |-> "error", json |-> FALSE, routes |-> <<>>]
BadJson  == [net |-> "ok", json |-> FALSE, routes |-> <<>>]
NoRoute  == [net |-> "ok", json |-> TRUE, routes |-> <<>>]
NoSummary == [net |-> "ok", json |-> TRUE, routes |-> << [summary |-> <<>>] >>]
RouteBody(s) == [net |-> "ok", json |-> TRUE, routes |-> << [summary |-> <<s>>] >>]

Settled(ok, msg, val) == [ok |-> ok, msg |-> msg, val |-> val]

\* httpsGet: resolves with the parsed body, rejects on 'error' or when
\* JSON.parse throws.  The operator gives how the promise settles once the
\* response has arrived; a response that never arrives settles nothing.
httpsGet(resp) ==
  IF resp.net = "error" THEN Settled(FALSE, "network error", <<>>)
  ELSE IF ~resp.json THEN Settled(FALSE, "Invalid JSON", <<>>)
  ELSE Settled(TRUE, "", <<resp>>)

\* A fetchRoute that prefers the no-traffic time to the historic one.
fetchRoute_noTrafficFirst(resp) ==
  LET got == httpsGet(resp) IN
  IF ~got.ok THEN got
  ELSE LET data == got.val[1] IN
    IF Len(data.routes) = 0 THEN Settled(FALSE, "No route", <<>>)
    ELSE IF data.routes[1].summary = <<>>
      THEN Settled(FALSE, "TypeError: Cannot read properties of undefined", <<>>)
    ELSE LET s == data.routes[1].summary[1] IN
      Settled(TRUE, "",
        << [trafficMin |-> RoundDiv60(s.travelTimeInSeconds),
            normalMin  |-> RoundDiv60(Coalesce(s.noTrafficTravelTimeInSeconds,
                             Coalesce(s.historicTrafficTravelTimeInSeconds, s.travelTimeInSeconds))),
            distanceKm |-> KmTenths(s.lengthInMeters)] >>)

\* fetchRoute of the crossings monitor.
fetchRoute(resp) ==
  LET got == httpsGet(resp) IN
  IF ~got.ok THEN got
  ELSE LET data == got.val[1] IN
    IF Len(data.routes) = 0 THEN Settled(FALSE, "No route", <<>>)
    ELSE IF data.routes[1].summary = <<>>
      THEN Settled(FALSE, "TypeError: Cannot read properties of undefined", <<>>)
    ELSE LET s == data.routes[1].summary[1] IN
      Settled(TRUE, "",
        << [trafficMin |-> RoundDiv60(s.travelTimeInSeconds),
            normalMin  |-> RoundDiv60(Coalesce(s.historicTrafficTravelTimeInSeconds,
                             Coalesce(s.noTrafficTravelTimeInSeconds, s.travelTimeInSeconds))),
            distanceKm |-> KmTenths(s.lengthInMeters)] >>)

\* fetchRoute of server.js.
fetchRoute_server(resp) ==
  LET got == httpsGet(resp) IN
  IF ~got.ok THEN got
  ELSE LET data == got.val[1] IN
    IF Len(data.routes) = 0 THEN Settled(FALSE, "No route returned from TomTom", <<>>)
    ELSE IF data.routes[1].summary = <<>>
      THEN Settled(FALSE, "TypeError: Cannot read properties of undefined", <<>>)
    ELSE LET summary == data.routes[1].summary[1]
             trafficSec == summary.travelTimeInSeconds
             normalSec == Coalesce(summary.noTrafficTravelTimeInSeconds, summary.travelTimeInSeconds)
             freeFlowSec == Coalesce(summary.historicTrafficTravelTimeInSeconds, normalSec) IN
      Settled(TRUE, "",
        << [trafficMin |-> RoundDiv60(trafficSec),
            normalMin  |-> RoundDiv60(freeFlowSec),
            distanceKm |-> KmTenths(summary.lengthInMeters)] >>)

FetchRoute(v, resp) == IF v = "crossings" THEN fetchRoute(resp) ELSE fetchRoute_server(resp)

\* The speed call: an error, a body that is not JSON, a body without
\* flowSegmentData, or a sample (its fields numbers, or absent).
SpeedError == [net |-> "error", json |-> FALSE, fd |-> <<>>]
SpeedBadJson == [net |-> "ok", json |-> FALSE, fd |-> <<>>]
SpeedNone  == [net |-> "ok", json |-> TRUE, fd |-> <<>>]
SpeedBody(cur, free) == [net |-> "ok", json |-> TRUE,
                         fd |-> << [currentSpeed |-> cur, freeFlowSpeed |-> free] >>]

\* Math.round((cur / free) * 100) for whole cur >= 0 and free > 0.
SpeedPct(cur, free) == (200 * cur + free) \div (2 * free)

\* fetchSpeed: null (<<>>) on any failure, never rejects.
fetchSpeed(resp) ==
  LET got == httpsGet(resp) IN
  IF ~got.ok THEN <<>>
  ELSE IF got.val[1].fd = <<>> THEN <<>>
  ELSE LET fd == got.val[1].fd[1] IN
    << [currentSpeed |-> JsRound(fd.currentSpeed), freeFlowSpeed |-> JsRound(fd.freeFlowSpeed),
        speedPct |-> IF IsNum(fd.currentSpeed) /\ IsNum(fd.freeFlowSpeed)
                     THEN Num(SpeedPct(fd.currentSpeed.v, fd.freeFlowSpeed.v)) ELSE NaN] >>

\* The weather call: an error, a body that is not JSON, a body without
\* `current`, or the current values (numbers, or absent).
WeatherError == [net |-> "error", json |-> FALSE, current |-> <<>>]
WeatherBadJson == [net |-> "ok", json |-> FALSE, current |-> <<>>]
WeatherNone  == [net |-> "ok", json |-> TRUE, current |-> <<>>]
WeatherBody(temp, precip, code, wind) ==
  [net |-> "ok", json |-> TRUE,
   current |-> << [temperature_2m |-> temp, precipitation |-> precip,
                   weather_code |-> code, wind_speed_10m |-> wind] >>]

weatherDescription(code) ==
  IF JsIs(code, 0) THEN "Clear sky"
  ELSE IF JsLe(code, 2) THEN "Partly cloudy"
  ELSE IF JsIs(code, 3) THEN "Overcast"
  ELSE IF JsLe(code, 49) THEN "Foggy"
  ELSE IF JsLe(code, 59) THEN "Drizzle"
  ELSE IF JsLe(code, 69) THEN "Rain"
  ELSE IF JsLe(code, 79) THEN "Snow"
  ELSE IF JsLe(code, 82) THEN "Rain showers"
  ELSE IF JsLe(code, 86) THEN "Snow showers"
  ELSE IF JsLe(code, 99) THEN "Thunderstorm"
  ELSE "Unknown"

weatherIcon(code) ==
  IF JsIs(code, 0) THEN "sun"
  ELSE IF JsLe(code, 2) THEN "sun-cloud"
  ELSE IF JsIs(code, 3) THEN "cloud"
  ELSE IF JsLe(code, 49) THEN "fog"
  ELSE IF JsLe(code, 69) THEN "rain"
  ELSE IF JsLe(code, 79) THEN "snow"
  ELSE IF JsLe(code, 82) THEN "showers"
  ELSE IF JsLe(code, 86) THEN "snow-showers"
  ELSE IF JsLe(code, 99) THEN "thunder"
  ELSE "thermometer"

\* The snapshot fetchWeather builds from a body (whole-number inputs).
WeatherSnapshot(c) ==
  [tempC |-> JsRound(c.temperature_2m), precipitation |-> c.precipitation,
   windKmh |-> JsRound(c.wind_speed_10m), condition |-> weatherDescription(c.weather_code),
   icon |-> weatherIcon(c.weather_code)]

\* How the try block of fetchWeather ends for a response: <<snapshot>>, or
\* <<>> when httpsGet rejects or `data.current` is undefined (the catch).
WeatherFetched(resp) ==
  LET got == httpsGet(resp) IN
  IF ~got.ok THEN <<>>
  ELSE IF got.val[1].current = <<>> THEN <<>>
  ELSE << WeatherSnapshot(got.val[1].current[1]) >>

----------------------------------------------------------------------------
(* The classifier and the Reading.                                         *)

\* A classifier that calls ten minutes HIGH (the thresholds "3-9 / 10+").
trafficLevel_tenIsHigh(delay) ==
  IF JsLe(delay, 2) THEN "LOW"
  ELSE IF JsLe(delay, 9) THEN "MODERATE"
  ELSE "HIGH"

\* trafficLevel of the crossings monitor.
trafficLevel(delay) ==
  IF JsLe(delay, 2) THEN "LOW"
  ELSE IF JsLe(delay, 10) THEN "MODERATE"
  ELSE "HIGH"

\* trafficLevel of server.js.
trafficLevel_server(delay) ==
  IF JsLe(delay, 2) THEN "LOW"
  ELSE IF JsLe(delay, 10) THEN "MODERATE"
  ELSE "HIGH"

TrafficLevel(v, delay) == IF v = "crossings" THEN trafficLevel(delay) ELSE trafficLevel_server(delay)

\* const delay = Math.max(0, result.trafficMin - result.normalMin)
Delay(result) == JsMax0(JsSub(result.trafficMin, result.normalMin))

\* The row checkAll builds.  timestamp is the instant new Date() reads; its
\* ISO-8601 text is rendered by IsoString where the row is written out.
Row(v, result, now, speed, weather) ==
  LET delay == Delay(result)
      level == TrafficLevel(v, delay) IN
  IF v = "crossings"
  THEN [timestamp |-> now, trafficMin |-> result.trafficMin, normalMin |-> result.normalMin,
        distanceKm |-> result.distanceKm, delay |-> delay, level |-> level,
        speed |-> speed, weather |-> weather]
  ELSE [timestamp |-> now, trafficMin |-> result.trafficMin, normalMin |-> result.normalMin,
        distanceKm |-> result.distanceKm, delay |-> delay, level |-> level]

----------------------------------------------------------------------------
(* The CSV log.  A line is the sequence of its comma-separated cells, each *)
(* cell the text the template literal renders.                             *)

\* `${x}` of a number-valued field.
JsText(x) == IF IsNum(x) THEN ToString(x.v) ELSE x.k

\* toISOString() of the instant t, as the text of its millisecond count.
IsoString(t) == "T" \o ToString(t)

Quoted(s) == "\"" \o s \o "\""

CsvHeader(v) ==
  IF v = "crossings"
  THEN <<"timestamp", "crossing", "route", "traffic_min", "normal_min", "delay_min", "traffic_level">>
  ELSE <<"timestamp", "route", "origin", "destination", "traffic_min", "normal_min",
         "delay_min", "traffic_level">>

\* A line with the baseline written before the travel time.
CsvLine_swapped(v, r, row) ==
  LET cfg == RouteList(v)[r] IN
  IF v = "crossings"
  THEN << Quoted(IsoString(row.timestamp)), Quoted(cfg.crossing), Quoted(cfg.name),
          JsText(row.normalMin), JsText(row.trafficMin), JsText(row.delay), Quoted(row.level) >>
  ELSE << Quoted(IsoString(row.timestamp)), Quoted(cfg.name), Quoted(cfg.origin), Quoted(cfg.dest),
          JsText(row.normalMin), JsText(row.trafficMin), JsText(row.delay), Quoted(row.level) >>

\* The line appendCsv writes for `row` of route r.
CsvLine(v, r, row) ==
  LET cfg == RouteList(v)[r] IN
  IF v = "crossings"
  THEN << Quoted(IsoString(row.timestamp)), Quoted(cfg.crossing), Quoted(cfg.name),
          JsText(row.trafficMin), JsText(row.normalMin), JsText(row.delay), Quoted(row.level) >>
  ELSE << Quoted(IsoString(row.timestamp)), Quoted(cfg.name), Quoted(cfg.origin), Quoted(cfg.dest),
          JsText(row.trafficMin), JsText(row.normalMin), JsText(row.delay), Quoted(row.level) >>

NoFile == [exists |-> FALSE, lines |-> <<>>]
File(lines) == [exists |-> TRUE, lines |-> lines]

\* A log creation that writes the header whether or not the file exists.
EnsureCsvFile_rewrite(v, f) == File(<< CsvHeader(v) >>)

\* ensureCsv, for one route: the header is written only when the file is absent.
EnsureCsvFile(v, f) == IF ~f.exists THEN File(<< CsvHeader(v) >>) ELSE f

\* A write that replaces the file's content (writeFileSync for appendFileSync).
AppendFile_overwrite(f, line) == File(<< line >>)

\* fs.appendFileSync: creates the file when it is absent.
AppendFile(f, line) == File(Append(f.lines, line))

----------------------------------------------------------------------------
(* What the upstream providers answer in the scheduler's behaviours.  The  *)
(* measurement functions are exercised on a wider set further below.       *)

\* A network error, travel 17 min over a historic 9 min (delay 8), and a
\* summary without its travel time.
RouteResponses ==
  { NetError,
    RouteBody(Summary(Num(1020), Num(540), Num(500), Num(1200))),
    RouteBody(Summary(UNDEF, Num(540), Num(500), Num(1200))) }

SpeedResponses == { SpeedError, SpeedNone, SpeedBody(Num(30), Num(60)) }

WeatherResponses ==
  { WeatherError, WeatherNone,
    WeatherBody(Num(21), Num(0), Num(0), Num(12)), WeatherBody(Num(18), Num(2), Num(61), Num(30)) }

----------------------------------------------------------------------------
(* checkAll.                                                               *)

NoOutcome(v) == [r \in Routes(v) |-> "none"]

\* A checkAll() invocation: `at` is the await it is suspended on ("weather",
\* "route" with the route index ri, or "done"), `weather` its local constant.
Cycle(id, startup, at, ri, weather, v) ==
  [id |-> id, startup |-> startup, at |-> at, ri |-> ri, weather |-> weather,
   outcome |-> NoOutcome(v)]

Event(type, cyc, route, res) == [type |-> type, cyc |-> cyc, route |-> route, res |-> res]

\* The test of fetchWeather's first line.
CacheFresh(cache, lastFetch, now) == cache # <<>> /\ now - lastFetch < WeatherTtlMs

\* A store that puts the new Reading at the head (unshift for push) and
\* drops the last one when over the cap.
PushReading_unshift(seq, row, cap) ==
  LET pushed == << row >> \o seq IN
  IF Len(pushed) > cap THEN SubSeq(pushed, 1, cap) ELSE pushed

\* A push that drops the newest element past the cap (pop for shift).
PushReading_pop(seq, row, cap) ==
  LET pushed == Append(seq, row) IN
  IF Len(pushed) > cap THEN SubSeq(pushed, 1, Len(pushed) - 1) ELSE pushed

\* readings[ci][ri].push(row); if (length > cap) shift()
PushReading(seq, row, cap) ==
  LET pushed == Append(seq, row) IN
  IF Len(pushed) > cap THEN Tail(pushed) ELSE pushed

\* checkAll() up to its first await that suspends.  The crossings monitor
\* awaits fetchWeather(): a fresh cache answers at once and the loop issues
\* the calls of the first route; otherwise the weather call is issued.
\* server.js has no weather and issues the first routing call.
BeginCycle(startup) ==
  LET id == Len(cycles) + 1
      hit == ver = "crossings" /\ CacheFresh(weatherCache, weatherLastFetch, clock)
      miss == ver = "crossings" /\ ~hit IN
  /\ cycles' = Append(cycles,
       IF miss THEN Cycle(id, startup, "weather", 0, <<>>, ver)
       ELSE Cycle(id, startup, "route", 1, IF hit THEN weatherCache ELSE <<>>, ver))
  /\ hist' = [hist EXCEPT !.wxIssued = IF miss THEN Append(@, [at |-> clock, cyc |-> id]) ELSE @,
                          !.wxCalls = IF ver = "crossings" THEN Append(@, [at |-> clock, hit |-> hit]) ELSE @]
  /\ ev' = Event("begin", id, 0, IF hit THEN "hit" ELSE IF miss THEN "miss" ELSE "")

\* A main that only installs the timer (no `await checkAll()` before
\* setInterval): the first cycle waits one interval.
Main_timerOnly ==
  /\ pc = "start"
  /\ IF ~env.tomtomKey
     THEN /\ pc' = "exited"
          /\ errors' = errors + 1
          /\ ev' = Event("exit", 0, 0, "TOMTOM_KEY not set")
          /\ UNCHANGED <<files, nextFire>>
     ELSE IF EnsureCsvThrows(ver, env)
     THEN /\ pc' = "exited"
          /\ errors' = errors + 1
          /\ files' = [r \in Routes(ver) |->
                         IF EnsureCsvReaches(ver, env, r) THEN EnsureCsvFile(ver, files[r]) ELSE files[r]]
          /\ ev' = Event("exit", 0, 0, "The path argument must be of type string")
          /\ UNCHANGED nextFire
     ELSE /\ pc' = "running"
          /\ files' = [r \in Routes(ver) |-> EnsureCsvFile(ver, files[r])]
          /\ nextFire' = clock + IntervalMs
          /\ ev' = Event("main", 0, 0, "")
          /\ UNCHANGED errors
  /\ UNCHANGED <<env, ver, clock, cycles, readings, weatherCache, weatherLastFetch, hist, probe>>

\* A main that installs the timer before it awaits the startup cycle.
Main_timerFirst ==
  /\ pc = "start"
  /\ IF ~env.tomtomKey
     THEN /\ pc' = "exited"
          /\ errors' = errors + 1
          /\ ev' = Event("exit", 0, 0, "TOMTOM_KEY not set")
          /\ UNCHANGED <<cycles, files, hist, nextFire>>
     ELSE IF EnsureCsvThrows(ver, env)
     THEN /\ pc' = "exited"
          /\ errors' = errors + 1
          /\ files' = [r \in Routes(ver) |->
                         IF EnsureCsvReaches(ver, env, r) THEN EnsureCsvFile(ver, files[r]) ELSE files[r]]
          /\ ev' = Event("exit", 0, 0, "The path argument must be of type string")
          /\ UNCHANGED <<cycles, hist, nextFire>>
     ELSE /\ pc' = "running"
          /\ nextFire' = clock + IntervalMs
          /\ files' = [r \in Routes(ver) |-> EnsureCsvFile(ver, files[r])]
          /\ BeginCycle(TRUE)
          /\ UNCHANGED errors
  /\ UNCHANGED <<env, ver, clock, readings, weatherCache, weatherLastFetch, probe>>

\* A main that creates the logs before it looks at the key.
Main_ensureFirst ==
  /\ pc = "start"
  /\ files' = [r \in Routes(ver) |-> EnsureCsvFile(ver, files[r])]
  /\ IF ~env.tomtomKey
     THEN /\ pc' = "exited"
          /\ errors' = errors + 1
          /\ ev' = Event("exit", 0, 0, "TOMTOM_KEY not set")
          /\ UNCHANGED <<cycles, hist>>
     ELSE IF EnsureCsvThrows(ver, env)
     THEN /\ pc' = "exited"
          /\ errors' = errors + 1
          /\ ev' = Event("exit", 0, 0, "The path argument must be of type string")
          /\ UNCHANGED <<cycles, hist>>
     ELSE /\ pc' = "startup"
          /\ BeginCycle(TRUE)
          /\ UNCHANGED errors
  /\ UNCHANGED <<env, ver, clock, nextFire, readings, weatherCache, weatherLastFetch, probe>>

\* main(): without TOMTOM_KEY the process exits; else ensureCsv(), whose
\* exception rejects main() and main().catch exits; else startServer() and
\* the startup cycle, which main awaits.
Main ==
  /\ pc = "start"
  /\ IF ~env.tomtomKey
     THEN /\ pc' = "exited"
          /\ errors' = errors + 1
          /\ ev' = Event("exit", 0, 0, "TOMTOM_KEY not set")
          /\ UNCHANGED <<cycles, files, hist>>
     ELSE IF EnsureCsvThrows(ver, env)
     THEN /\ pc' = "exited"
          /\ errors' = errors + 1
          /\ files' = [r \in Routes(ver) |->
                         IF EnsureCsvReaches(ver, env, r) THEN EnsureCsvFile(ver, files[r]) ELSE files[r]]
          /\ ev' = Event("exit", 0, 0, "The path argument must be of type string")
          /\ UNCHANGED <<cycles, hist>>
     ELSE /\ pc' = "startup"
          /\ files' = [r \in Routes(ver) |-> EnsureCsvFile(ver, files[r])]
          /\ BeginCycle(TRUE)
          /\ UNCHANGED errors
  /\ UNCHANGED <<env, ver, clock, nextFire, readings, weatherCache, weatherLastFetch, probe>>

\* A timer callback that skips its turn while an earlier cycle is running.
TimerFire_skip ==
  /\ pc = "running"
  /\ clock >= nextFire
  /\ Len(cycles) < MaxCycles
  /\ \A c \in DOMAIN cycles : cycles[c].at = "done"
  /\ nextFire' = clock + IntervalMs
  /\ BeginCycle(FALSE)
  /\ UNCHANGED <<env, ver, pc, clock, readings, files, weatherCache, weatherLastFetch,
                 errors, probe>>

\* The setInterval callback: checkAll() is called when the timer is due,
\* whatever earlier invocations are doing, and the timer is re-armed.
TimerFire ==
  /\ pc = "running"
  /\ clock >= nextFire
  /\ Len(cycles) < MaxCycles
  /\ nextFire' = clock + IntervalMs
  /\ BeginCycle(FALSE)
  /\ UNCHANGED <<env, ver, pc, clock, readings, files, weatherCache, weatherLastFetch,
                 errors, probe>>

\* A fetchWeather whose catch returns the cached snapshot (`return
\* weatherCache` for `return null`).
WeatherResolve_stale(c, resp) ==
  LET got == WeatherFetched(resp) IN
  /\ pc \in {"startup", "running"}
  /\ c \in DOMAIN cycles
  /\ cycles[c].at = "weather"
  /\ got = <<>> => hist.faults < hist.budget
  /\ IF got # <<>>
     THEN weatherCache' = got /\ weatherLastFetch' = clock
     ELSE UNCHANGED <<weatherCache, weatherLastFetch>>
  /\ cycles' = [cycles EXCEPT ![c].at = "route", ![c].ri = 1,
                              ![c].weather = IF got = <<>> THEN weatherCache ELSE got]
  /\ hist' = [hist EXCEPT !.faults = IF got = <<>> THEN @ + 1 ELSE @]
  /\ ev' = Event("weather", c, 0, IF got = <<>> THEN "null" ELSE "snapshot")
  /\ UNCHANGED <<env, ver, pc, clock, nextFire, readings, files, errors, probe>>

\* The weather response of cycle c arrives: the rest of fetchWeather, then
\* checkAll issues the calls of the first route.
WeatherResolve(c, resp) ==
  LET got == WeatherFetched(resp) IN
  /\ pc \in {"startup", "running"}
  /\ c \in DOMAIN cycles
  /\ cycles[c].at = "weather"
  /\ got = <<>> => hist.faults < hist.budget
  /\ IF got # <<>>
     THEN weatherCache' = got /\ weatherLastFetch' = clock
     ELSE UNCHANGED <<weatherCache, weatherLastFetch>>
  /\ cycles' = [cycles EXCEPT ![c].at = "route", ![c].ri = 1, ![c].weather = got]
  /\ hist' = [hist EXCEPT !.faults = IF got = <<>> THEN @ + 1 ELSE @]
  /\ ev' = Event("weather", c, 0, IF got = <<>> THEN "null" ELSE "snapshot")
  /\ UNCHANGED <<env, ver, pc, clock, nextFire, readings, files, errors, probe>>

\* A loop whose try/catch is around the whole iteration: the first route
\* that fails ends the cycle.
Advance_abort(cyc, res) ==
  LET n == Len(RouteList(ver))
      marked == [cyc EXCEPT !.outcome[cyc.ri] = res] IN
  IF cyc.ri < n /\ res # "fail" THEN [marked EXCEPT !.ri = cyc.ri + 1]
  ELSE [marked EXCEPT !.at = "done", !.ri = n + 1]

\* A loop without try/catch: the exception of a failed route or of a
\* failed write leaves checkAll, whose promise rejects.
Advance_reject(cyc, res) ==
  LET n == Len(RouteList(ver))
      marked == [cyc EXCEPT !.outcome[cyc.ri] = res] IN
  IF res # "ok" THEN [marked EXCEPT !.at = "rejected"]
  ELSE IF cyc.ri < n THEN [marked EXCEPT !.ri = cyc.ri + 1]
  ELSE [marked EXCEPT !.at = "done", !.ri = n + 1]

\* A loop that polls a failed route again at once.
Advance_retry(cyc, res) ==
  LET n == Len(RouteList(ver))
      marked == [cyc EXCEPT !.outcome[cyc.ri] = res] IN
  IF res = "fail" THEN marked
  ELSE IF cyc.ri < n THEN [marked EXCEPT !.ri = cyc.ri + 1]
  ELSE [marked EXCEPT !.at = "done", !.ri = n + 1]

\* After the try/catch of route ri: the loop goes to the next route and
\* issues its calls, or checkAll returns.
Advance(cyc, res) ==
  LET n == Len(RouteList(ver))
      marked == [cyc EXCEPT !.outcome[cyc.ri] = res] IN
  IF cyc.ri < n THEN [marked EXCEPT !.ri = cyc.ri + 1]
  ELSE [marked EXCEPT !.at = "done", !.ri = n + 1]

\* A try/catch with an empty catch: nothing is reported.
TryRoute_silent(v, r, seq, file, result, speed, weather, now, writeOk) ==
  IF ~result.ok THEN [seq |-> seq, file |-> file, reported |-> FALSE]
  ELSE LET row == Row(v, result.val[1], now, speed, weather) IN
    IF writeOk
    THEN [seq |-> PushReading(seq, row, MaxReadings(v)), file |-> AppendFile(file, CsvLine(v, r, row)),
          reported |-> FALSE]
    ELSE [seq |-> PushReading(seq, row, MaxReadings(v)), file |-> file, reported |-> FALSE]

\* A try block that writes the log before it pushes: a write that throws
\* leaves the row out of memory.
TryRoute_writeFirst(v, r, seq, file, result, speed, weather, now, writeOk) ==
  IF ~result.ok THEN [seq |-> seq, file |-> file, reported |-> TRUE]
  ELSE LET row == Row(v, result.val[1], now, speed, weather) IN
    IF writeOk
    THEN [seq |-> PushReading(seq, row, MaxReadings(v)), file |-> AppendFile(file, CsvLine(v, r, row)),
          reported |-> FALSE]
    ELSE [seq |-> seq, file |-> file, reported |-> TRUE]

\* The try/catch of checkAll for one route, once its calls have settled:
\* what becomes of the route's sequence and log file, and whether err()
\* reports.  A rejected fetchRoute goes straight to the catch; otherwise
\* the row is pushed (and the oldest shifted out past the cap) before
\* appendCsv, whose exception the same catch reports.
TryRoute(v, r, seq, file, result, speed, weather, now, writeOk) ==
  IF ~result.ok THEN [seq |-> seq, file |-> file, reported |-> TRUE]
  ELSE LET row == Row(v, result.val[1], now, speed, weather)
           pushed == PushReading(seq, row, MaxReadings(v)) IN
    IF writeOk
    THEN [seq |-> pushed, file |-> AppendFile(file, CsvLine(v, r, row)), reported |-> FALSE]
    ELSE [seq |-> pushed, file |-> file, reported |-> TRUE]

\* A row that takes the weather from the module's cache when it is built.
CycleWeather_cache(cyc) == weatherCache

\* const weather = await fetchWeather(): the value an invocation of
\* checkAll holds for all its routes.
CycleWeather(cyc) == cyc.weather

\* The calls of route ri of cycle c settle (Promise.all of fetchRoute and,
\* in the crossings monitor, fetchSpeed), and the loop goes on.  writeOk is
\* whether fs.appendFileSync returns or throws.  When the startup cycle
\* returns, main installs the timer.
RouteResolve(c, resp, speedResp, writeOk) ==
  LET cyc == cycles[c]
      r == cyc.ri
      result == FetchRoute(ver, resp)
      speed == IF ver = "crossings" THEN fetchSpeed(speedResp) ELSE <<>>
      row == Row(ver, result.val[1], clock, speed, CycleWeather(cyc))
      res == IF ~result.ok THEN "fail" ELSE IF writeOk THEN "ok" ELSE "writefail"
      faulty == \/ res # "ok"
                \/ ver = "crossings" /\ speed = <<>>
                \/ ~IsNum(result.val[1].trafficMin)
      done == TryRoute(ver, r, readings[r], files[r], result, speed, CycleWeather(cyc), clock, writeOk)
      next == Advance(cyc, res) IN
  /\ pc \in {"startup", "running"}
  /\ c \in DOMAIN cycles
  /\ cyc.at = "route"
  /\ hist.polls < MaxPolls
  /\ faulty => hist.faults < hist.budget
  /\ readings' = [readings EXCEPT ![r] = done.seq]
  /\ files' = [files EXCEPT ![r] = done.file]
  /\ errors' = IF done.reported THEN errors + 1 ELSE errors
  /\ cycles' = [cycles EXCEPT ![c] = next]
  /\ IF cyc.startup /\ next.at = "done"
     THEN pc' = "running" /\ nextFire' = clock + IntervalMs
     ELSE UNCHANGED <<pc, nextFire>>
  /\ hist' = [hist EXCEPT
       !.polls = @ + 1,
       !.faults = IF faulty THEN @ + 1 ELSE @,
       !.okPolls[r] = IF result.ok THEN @ + 1 ELSE @,
       !.first[r] = IF result.ok /\ @ = <<>> THEN <<row>> ELSE @,
       !.last[r] = IF result.ok THEN <<row>> ELSE @,
       !.writeFails[r] = IF res = "writefail" THEN @ + 1 ELSE @,
       !.evicted[r] = IF result.ok /\ Len(done.seq) = Len(readings[r]) /\ readings[r] # <<>>
                      THEN Append(@, Head(readings[r])) ELSE @,
       !.startupEnd = IF cyc.startup /\ next.at = "done" THEN << clock >> ELSE @]
  /\ ev' = Event("route", c, r, res)
  /\ UNCHANGED <<env, ver, clock, weatherCache, weatherLastFetch, probe>>

\* Time passes.  A due timer is served before the clock moves on.
TickSteps == { IntervalMs }

Tick(d) ==
  /\ pc \in {"startup", "running"}
  /\ clock + d <= MaxClock
  /\ pc = "running" => clock + d <= nextFire
  /\ clock' = clock + d
  /\ ev' = Event("tick", 0, 0, "")
  /\ UNCHANGED <<env, ver, pc, nextFire, cycles, readings, files, weatherCache,
                 weatherLastFetch, errors, hist, probe>>

----------------------------------------------------------------------------
(* The HTTP server.  A request is its path and, for the download          *)
(* endpoints, the credentials of its Authorization header (<<>> when the   *)
(* header is absent).  The response is the status, the content type and    *)
(* the data the body renders.                                              *)

\* The card of a crossing on the main page: the latest Reading of each of
\* its two routes and the pill computed from them.
LEVELS == <<"LOW", "MODERATE", "HIGH">>

\* levels.indexOf(level)
LevelIndex(level) ==
  IF \E i \in DOMAIN LEVELS : LEVELS[i] = level
  THEN (CHOOSE i \in DOMAIN LEVELS : LEVELS[i] = level) - 1
  ELSE 0 - 1

\* A latest Reading taken from the head of the sequence (arr[0]).
Latest_first(arr) == IF Len(arr) = 0 THEN <<>> ELSE << arr[1] >>

\* arr[arr.length - 1] || null
Latest(arr) == IF Len(arr) = 0 THEN <<>> ELSE << arr[Len(arr)] >>

\* An aggregation that shows the level of the one route that has a Reading
\* (l0||l1 for l0&&l1).
worstLevel_any(l0, l1) ==
  IF l0 = <<>> /\ l1 = <<>> THEN <<>>
  ELSE IF l0 = <<>> THEN << l1[1].level >>
  ELSE IF l1 = <<>> THEN << l0[1].level >>
  ELSE LET i == IF LevelIndex(l0[1].level) >= LevelIndex(l1[1].level)
                THEN LevelIndex(l0[1].level) ELSE LevelIndex(l1[1].level) IN
       IF i >= 0 THEN << LEVELS[i + 1] >> ELSE <<>>

\* An aggregation that takes the smaller index (Math.min for Math.max).
worstLevel_min(l0, l1) ==
  IF l0 # <<>> /\ l1 # <<>>
  THEN LET i == IF LevelIndex(l0[1].level) <= LevelIndex(l1[1].level)
                THEN LevelIndex(l0[1].level) ELSE LevelIndex(l1[1].level) IN
       IF i >= 0 THEN << LEVELS[i + 1] >> ELSE <<>>
  ELSE <<>>

\* const worst = l0&&l1 ? levels[Math.max(indexOf(l0.level), indexOf(l1.level))] : null
worstLevel(l0, l1) ==
  IF l0 # <<>> /\ l1 # <<>>
  THEN LET i == IF LevelIndex(l0[1].level) >= LevelIndex(l1[1].level)
                THEN LevelIndex(l0[1].level) ELSE LevelIndex(l1[1].level) IN
       IF i >= 0 THEN << LEVELS[i + 1] >> ELSE <<>>
  ELSE <<>>

\* Texts that are taken apart are sequences of pieces, the colon a piece of
\* its own: 'pa:ss' is <<"pa", ":", "ss">> and '' is <<>>.
\* text.split(':'): the parts between the colons, one part more than colons.
RECURSIVE Split(_)
Split(text) ==
  IF \A i \in DOMAIN text : text[i] # ":" THEN << text >>
  ELSE LET k == CHOOSE i \in DOMAIN text : text[i] = ":" /\ \A j \in 1 .. i - 1 : text[j] # ":" IN
       << SubSeq(text, 1, k - 1) >> \o Split(SubSeq(text, k + 1, Len(text)))

\* CONFIG.downloadUser (its default) and the default of CONFIG.downloadPass;
\* CONFIG.downloadPass is DOWNLOAD_PASS of the environment, '' when unset.
DOWNLOAD_USER == << "admin" >>
DOWNLOAD_PASS == <<>>
downloadPass == env.downloadPass

\* The ids of the crossings, and the download slug of each route:
\* r.logFile.replace('log-','').replace('.csv','').
CROSSING_IDS == <<"metehan", "astromeritis">>
SLUGS == <<"metehan-s2n", "metehan-n2s", "astromeritis-s2n", "astromeritis-n2s">>

\* The Authorization header: absent, or a scheme and a payload, the payload
\* named by the text it decodes to; a client sends 'Basic' and user:pass.
NoAuth == <<>>
Header(scheme, text) == << [scheme |-> scheme, text |-> text] >>
Basic(user, pass) == Header("Basic", user \o << ":" >> \o pass)
Request(path, auth) == [path |-> path, auth |-> auth]
Response(status, type, body) == [status |-> status, type |-> type, body |-> body]

\* The requests considered: every endpoint, a download with and without
\* valid credentials, an unknown slug, and a path no rule names.
Requests(v) ==
  IF v = "crossings"
  THEN { Request("/health", NoAuth), Request("/api/data", NoAuth),
         Request("/download/metehan-s2n", NoAuth),
         Request("/download/metehan-s2n", Basic(DOWNLOAD_USER, DOWNLOAD_PASS)),
         Request("/download/metehan-s2n", Basic(DOWNLOAD_USER, << "wrong" >>)),
         Request("/download/nope", Basic(DOWNLOAD_USER, DOWNLOAD_PASS)),
         Request("/metehan", NoAuth), Request("/", NoAuth), Request("/nope", NoAuth) }
  ELSE { Request("/api/readings", NoAuth), Request("/health", NoAuth), Request("/", NoAuth) }

\* checkAuth: the payload after the first blank of the header is decoded
\* and split at its colons; the first two parts are compared with the
\* configured user and password (a missing second part is undefined and
\* equals no password).
checkAuth(req) ==
  /\ req.auth # NoAuth
  /\ LET parts == Split(req.auth[1].text) IN
     /\ parts[1] = DOWNLOAD_USER
     /\ Len(parts) >= 2
     /\ parts[2] = downloadPass

\* url.startsWith('/download/'), among the paths considered.
IsDownload(path) == path \in { "/download/" \o SLUGS[i] : i \in DOMAIN SLUGS } \cup { "/download/nope" }

\* A download map that answers every slug with the first route's log.
DownloadRoute_first(path) == 1

\* downloadMap[slug]: the route of the slug, 0 when no route has it.
DownloadRoute(path) ==
  IF \E i \in DOMAIN SLUGS : "/download/" \o SLUGS[i] = path
  THEN CHOOSE i \in DOMAIN SLUGS : "/download/" \o SLUGS[i] = path
  ELSE 0

\* CROSSINGS.findIndex(c => c.id === url.replace('/','')), 0-based, -1 when absent.
CrossingIndex(path) ==
  IF \E i \in DOMAIN CROSSING_IDS : "/" \o CROSSING_IDS[i] = path
  THEN (CHOOSE i \in DOMAIN CROSSING_IDS : "/" \o CROSSING_IDS[i] = path) - 1
  ELSE 0 - 1

\* The route of crossing ci (0-based) with route index ri (0-based).
RouteOf(ci, ri) == CHOOSE r \in Routes("crossings") : CROSSINGS[r].ci = ci /\ CROSSINGS[r].ri = ri

\* The weather shown on a page: the loop over `rs` (in order) stops at the
\* first route whose latest Reading carries a weather snapshot.
PageWeather(rs) ==
  LET with == { r \in rs : readings[r] # <<>> /\ readings[r][Len(readings[r])].weather # <<>> } IN
  IF with = {} THEN <<>>
  ELSE readings[CHOOSE r \in with : \A q \in with : r <= q][Len(readings[CHOOSE r \in with : \A q \in with : r <= q])].weather

\* A window taken from the head of the sequence (slice(0, n) for slice(-n)).
LastN_head(arr, n) == SubSeq(arr, 1, IF Len(arr) > n THEN n ELSE Len(arr))

\* arr.slice(-n)
LastN(arr, n) == SubSeq(arr, (IF Len(arr) > n THEN Len(arr) - n + 1 ELSE 1), Len(arr))

\* The chart window of the detail page.
TwelveHoursMs == 12 * 60 * 60 * 1000
Last12h(arr) == SelectSeq(arr, LAMBDA x : x.timestamp >= clock - TwelveHoursMs)

\* The chart window of the dashboard of server.js.
CHART_POINTS == 12

\* The data buildMainPage renders: the weather box and a card per crossing.
buildMainPage ==
  [weather |-> PageWeather(Routes("crossings")),
   cards |-> [i \in DOMAIN CROSSING_IDS |->
     LET l0 == Latest(readings[RouteOf(i - 1, 0)])
         l1 == Latest(readings[RouteOf(i - 1, 1)]) IN
     [latest |-> <<l0, l1>>, worst |-> worstLevel(l0, l1)]]]

\* The data buildDetailPage renders for crossing ci (0-based).
buildDetailPage(ci) ==
  [crossing |-> ci,
   weather |-> PageWeather({RouteOf(ci, 0), RouteOf(ci, 1)}),
   routes |-> [k \in 1 .. 2 |->
     [latest |-> Latest(readings[RouteOf(ci, k - 1)]),
      chart |-> Last12h(readings[RouteOf(ci, k - 1)])]]]

\* The data buildDashboard of server.js renders.
buildDashboard ==
  [r \in Routes("server") |->
    [latest |-> Latest(readings[r]), chart |-> LastN(readings[r], CHART_POINTS)]]

\* The request handler of the crossings monitor.
handler(req) ==
  IF req.path = "/health" THEN Response(200, "", "OK")
  ELSE IF req.path = "/api/data"
    THEN Response(200, "application/json", [r \in Routes("crossings") |-> Latest(readings[r])])
  ELSE IF IsDownload(req.path)
    THEN IF ~checkAuth(req) THEN Response(401, "text/plain", "Authentication required")
         ELSE IF DownloadRoute(req.path) = 0 \/ ~files[DownloadRoute(req.path)].exists
           THEN Response(404, "", "File not found")
         ELSE Response(200, "text/csv", files[DownloadRoute(req.path)].lines)
  ELSE IF CrossingIndex(req.path) >= 0
    THEN Response(200, "text/html", buildDetailPage(CrossingIndex(req.path)))
  ELSE Response(200, "text/html", buildMainPage)

\* The request handler of server.js.
handler_server(req) ==
  IF req.path = "/api/readings"
  THEN Response(200, "application/json", [routes |-> config_routes, readings |-> readings])
  ELSE IF req.path = "/health" THEN Response(200, "", "OK")
  ELSE Response(200, "text/html", buildDashboard)

Handler(v, req) == IF v = "crossings" THEN handler(req) ELSE handler_server(req)

HttpEvent(req, response) ==
  [type |-> "http", cyc |-> 0, route |-> 0, res |-> req.path, req |-> req, response |-> response]

\* A handler that takes the latest Reading off the sequence (pop() for an
\* index read).
HttpRequest_pop(req) ==
  /\ pc \in {"startup", "running"}
  /\ ev' = HttpEvent(req, Handler(ver, req))
  /\ readings' = [r \in Routes(ver) |->
                    IF readings[r] = <<>> THEN <<>> ELSE SubSeq(readings[r], 1, Len(readings[r]) - 1)]
  /\ UNCHANGED <<env, ver, pc, clock, nextFire, cycles, files, weatherCache,
                 weatherLastFetch, errors, hist, probe>>

\* A request is served: the server listens from main's startServer() on;
\* the handler reads the store and the logs and writes the response.
HttpRequest(req) ==
  /\ pc \in {"startup", "running"}
  /\ ev' = HttpEvent(req, Handler(ver, req))
  /\ UNCHANGED <<env, ver, pc, clock, nextFire, cycles, readings, files, weatherCache,
                 weatherLastFetch, errors, hist, probe>>

----------------------------------------------------------------------------
(* The initial states: main() has not run, the disk is empty or holds the  *)
(* log an earlier run of the same program left for the first route.        *)

NoProbe == [fn |-> "none"]

\* process.env: whether TOMTOM_KEY is set, DOWNLOAD_PASS ('' when unset) and
\* ROUTES: unset ("default") or the array of the README's example ("readme").
Env(key, pass, routes) == [tomtomKey |-> key, downloadPass |-> pass, ROUTES |-> routes]

OldRow(v) == Row(v, fetchRoute(RouteBody(Summary(Num(600), Num(540), UNDEF, Num(1200)))).val[1],
                 0 - IntervalMs, <<>>, <<>>)

Disks(v) ==
  { [r \in Routes(v) |-> NoFile],
    [r \in Routes(v) |-> IF r = 1 THEN File(<< CsvHeader(v), CsvLine(v, 1, OldRow(v)) >>) ELSE NoFile] }

\* hist: polls and faults of the behaviour; per route the routing calls
\* that succeeded since the process started (okPolls), the first and the
\* last row built, the log writes that threw; the disk main() found; the
\* instants of the upstream weather calls and of the fetchWeather calls;
\* the restarts so far; per route the Readings shift() has removed; the
\* number of faults the behaviour may hold; the instant the startup cycle
\* returned.
Hist0(v, disk) ==
  [polls |-> 0, faults |-> 0,
   okPolls |-> [r \in Routes(v) |-> 0],
   first |-> [r \in Routes(v) |-> <<>>],
   last |-> [r \in Routes(v) |-> <<>>],
   writeFails |-> [r \in Routes(v) |-> 0],
   disk0 |-> disk,
   wxIssued |-> <<>>, wxCalls |-> <<>>,
   restarts |-> 0,
   evicted |-> [r \in Routes(v) |-> <<>>],
   budget |-> MaxFaults,
   startupEnd |-> <<>>]

Init ==
  /\ ver \in Versions
  /\ env \in { Env(key, DOWNLOAD_PASS, routes) : key \in BOOLEAN, routes \in RoutesEnv(ver) }
  /\ pc = "start"
  /\ clock = 0
  /\ nextFire = 0
  /\ cycles = <<>>
  /\ readings = [r \in Routes(ver) |-> <<>>]
  /\ files \in Disks(ver)
  /\ weatherCache = <<>>
  /\ weatherLastFetch = 0
  /\ errors = 0
  /\ hist = Hist0(ver, files)
  /\ ev = Event("init", 0, 0, "")
  /\ probe = NoProbe

\* A process that has been polling for a long time: the first route has
\* answered every cycle since the start and its sequence is one short of
\* the cap, the other routes have never answered, the last cycle has just
\* returned and the timer is due one interval from now.
OldReading(v, i) ==
  Row(v, FetchRoute(v, RouteBody(Summary(Num(600), Num(540), UNDEF, Num(1200)))).val[1],
      (i + 1 - MaxReadings(v)) * IntervalMs, <<>>, <<>>)

OldReadings(v) == [i \in 1 .. MaxReadings(v) - 1 |-> OldReading(v, i)]

InitFull ==
  /\ env = Env(TRUE, DOWNLOAD_PASS, "default")
  /\ ver \in Versions
  /\ pc = "running"
  /\ clock = 0
  /\ nextFire = IntervalMs
  /\ cycles = <<>>
  /\ readings = [r \in Routes(ver) |-> IF r = 1 THEN OldReadings(ver) ELSE <<>>]
  /\ files = [r \in Routes(ver) |->
                File(<< CsvHeader(ver) >> \o
                     (IF r = 1 THEN [i \in 1 .. MaxReadings(ver) - 1 |-> CsvLine(ver, 1, OldReading(ver, i))]
                      ELSE <<>>))]
  /\ weatherCache = <<>>
  /\ weatherLastFetch = 0
  /\ errors = 0
  /\ hist = [Hist0(ver, [r \in Routes(ver) |-> NoFile]) EXCEPT
               !.okPolls[1] = MaxReadings(ver) - 1,
               !.first[1] = << OldReading(ver, 1) >>,
               !.last[1] = << OldReading(ver, MaxReadings(ver) - 1) >>]
  /\ ev = Event("init", 0, 0, "")
  /\ probe = NoProbe

Next ==
  \/ Main
  \/ TimerFire
  \/ \E c \in 1 .. MaxCycles, resp \in WeatherResponses : WeatherResolve(c, resp)
  \/ \E c \in 1 .. MaxCycles, resp \in RouteResponses, sp \in SpeedResponses, w \in BOOLEAN :
       /\ (ver = "server" \/ ~FetchRoute(ver, resp).ok) => sp = SpeedError
       /\ ~FetchRoute(ver, resp).ok => w
       /\ RouteResolve(c, resp, sp, w)
  \/ \E d \in TickSteps : Tick(d)
  \/ \E req \in Requests(ver) : HttpRequest(req)

Spec == Init /\ [][Next]_vars

\* The process ends (SIGINT, a crash, a redeploy) and the program is started
\* again: the module's initialisers run anew, so the store, the weather
\* cache and the timer are gone and the calls in flight are abandoned; the
\* disk and the clock are untouched.  main() of the new process runs next.
Restart ==
  /\ pc \in {"startup", "running", "exited"}
  /\ hist.restarts < MaxRestarts
  /\ pc' = "start"
  /\ nextFire' = 0
  /\ cycles' = <<>>
  /\ readings' = [r \in Routes(ver) |-> <<>>]
  /\ weatherCache' = <<>>
  /\ weatherLastFetch' = 0
  /\ errors' = 0
  /\ hist' = [Hist0(ver, files) EXCEPT !.polls = hist.polls, !.faults = hist.faults,
                                       !.restarts = hist.restarts + 1]
  /\ ev' = Event("restart", 0, 0, "")
  /\ UNCHANGED <<env, ver, clock, files, probe>>

\* The program over the life of its logs: runs of the process, one after
\* the other, on the same disk.
NextRestart ==
  \/ Main
  \/ TimerFire
  \/ \E c \in 1 .. MaxCycles, resp \in WeatherResponses : WeatherResolve(c, resp)
  \/ \E c \in 1 .. MaxCycles, resp \in RouteResponses, sp \in SpeedResponses, w \in BOOLEAN :
       /\ (ver = "server" \/ ~FetchRoute(ver, resp).ok) => sp = SpeedError
       /\ ~FetchRoute(ver, resp).ok => w
       /\ RouteResolve(c, resp, sp, w)
  \/ \E d \in TickSteps : Tick(d)
  \/ Restart

SpecRestart == Init /\ [][NextRestart]_vars

\* The download endpoint under the passwords an operator may configure
\* (none, a word, a word with a colon in it) and the headers a client may
\* send: none, or the Basic credentials of a user and a password.
Passwords == { <<>>, << "s3cret" >>, << "pa", ":", "ss" >> }
Users == { DOWNLOAD_USER, << "guest" >> }
SentPasswords == Passwords \cup { << "pa" >>, << "s3cret", ":", "x" >> }
DownloadPaths == { "/download/metehan-s2n", "/download/astromeritis-n2s" }

DownloadRequests ==
  { Request(p, NoAuth) : p \in DownloadPaths }
    \cup { Request(p, Basic(u, w)) : p \in DownloadPaths, u \in Users, w \in SentPasswords }

InitAuth ==
  /\ env \in { Env(TRUE, pass, "default") : pass \in Passwords }
  /\ ver = "crossings"
  /\ pc = "start"
  /\ clock = 0
  /\ nextFire = 0
  /\ cycles = <<>>
  /\ readings = [r \in Routes(ver) |-> <<>>]
  /\ files \in Disks(ver)
  /\ weatherCache = <<>>
  /\ weatherLastFetch = 0
  /\ errors = 0
  /\ hist = Hist0(ver, files)
  /\ ev = Event("init", 0, 0, "")
  /\ probe = NoProbe

NextAuth ==
  \/ Main
  \/ \E req \in DownloadRequests : HttpRequest(req)

SpecAuth == InitAuth /\ [][NextAuth]_vars

\* The dashboard of server.js over sequences of every length around the
\* chart window: each route has been answering for some cycles, one
\* Reading per interval, the last cycle has returned and the timer is armed.
ChartReading(i) ==
  Row("server", fetchRoute_server(RouteBody(Summary(Num(600 + 60 * i), Num(540), UNDEF, Num(1200)))).val[1],
      (i - MaxWindow) * IntervalMs, <<>>, <<>>)

ChartReadings(n) == [i \in 1 .. n |-> ChartReading(i + MaxWindow - n)]

InitChart ==
  /\ env = Env(TRUE, DOWNLOAD_PASS, "default")
  /\ ver = "server"
  /\ pc = "running"
  /\ clock = 0
  /\ nextFire = IntervalMs
  /\ cycles = <<>>
  /\ readings \in { [r \in Routes(ver) |-> ChartReadings(len[r])] : len \in [Routes(ver) -> 0 .. MaxWindow] }
  /\ files = [r \in Routes(ver) |->
                File(<< CsvHeader(ver) >> \o [i \in 1 .. Len(readings[r]) |-> CsvLine(ver, r, readings[r][i])])]
  /\ weatherCache = <<>>
  /\ weatherLastFetch = 0
  /\ errors = 0
  /\ hist = [Hist0(ver, [r \in Routes(ver) |-> NoFile]) EXCEPT
               !.okPolls = [r \in Routes(ver) |-> Len(readings[r])],
               !.first = [r \in Routes(ver) |-> IF readings[r] = <<>> THEN <<>> ELSE << readings[r][1] >>],
               !.last = [r \in Routes(ver) |-> Latest(readings[r])]]
  /\ ev = Event("init", 0, 0, "")
  /\ probe = NoProbe

NextChart == \E req \in { Request("/", NoAuth) } : HttpRequest(req)

SpecChart == InitChart /\ [][NextChart]_vars

\* The program without its HTTP requests, under upstream calls and log
\* writes that may fail at every step: routing, speed, weather and write
\* failures, any two of them in one behaviour, in one cycle or in two.
InitFaults ==
  /\ ver \in Versions
  /\ env = Env(TRUE, DOWNLOAD_PASS, "default")
  /\ pc = "start"
  /\ clock = 0
  /\ nextFire = 0
  /\ cycles = <<>>
  /\ readings = [r \in Routes(ver) |-> <<>>]
  /\ files = [r \in Routes(ver) |-> NoFile]
  /\ weatherCache = <<>>
  /\ weatherLastFetch = 0
  /\ errors = 0
  /\ hist = [Hist0(ver, files) EXCEPT !.budget = MaxFaults + 1]
  /\ ev = Event("init", 0, 0, "")
  /\ probe = NoProbe

NextFaults ==
  \/ Main
  \/ TimerFire
  \/ \E c \in 1 .. MaxCycles, resp \in WeatherResponses : WeatherResolve(c, resp)
  \/ \E c \in 1 .. MaxCycles, resp \in RouteResponses, sp \in SpeedResponses, w \in BOOLEAN :
       /\ (ver = "server" \/ ~FetchRoute(ver, resp).ok) => sp = SpeedError
       /\ ~FetchRoute(ver, resp).ok => w
       /\ RouteResolve(c, resp, sp, w)
  \/ \E d \in TickSteps : Tick(d)

SpecFaults == InitFaults /\ [][NextFaults]_vars

\* The same program from the long-running state.
NextFull ==
  \/ TimerFire
  \/ \E c \in 1 .. MaxCycles, resp \in WeatherResponses : WeatherResolve(c, resp)
  \/ \E c \in 1 .. MaxCycles, resp \in RouteResponses, sp \in SpeedResponses, w \in BOOLEAN :
       /\ (ver = "server" \/ ~FetchRoute(ver, resp).ok) => sp = SpeedError
       /\ ~FetchRoute(ver, resp).ok => w
       /\ RouteResolve(c, resp, sp, w)
  \/ \E d \in TickSteps : Tick(d)

SpecFull == InitFull /\ [][NextFull]_vars

----------------------------------------------------------------------------
(* The measurement functions on their own: an input is drawn, the function *)
(* is applied, the result is kept beside the input.                        *)

\* Every state component of the scheduler, at rest.
AtRest ==
  /\ env = Env(TRUE, DOWNLOAD_PASS, "default")
  /\ ver = "crossings"
  /\ pc = "start"
  /\ clock = 0
  /\ nextFire = 0
  /\ cycles = <<>>
  /\ readings = [r \in Routes(ver) |-> <<>>]
  /\ files = [r \in Routes(ver) |-> NoFile]
  /\ weatherCache = <<>>
  /\ weatherLastFetch = 0
  /\ errors = 0
  /\ hist = Hist0(ver, files)
  /\ ev = Event("init", 0, 0, "")

SchedulerVars == <<env, ver, pc, clock, nextFire, cycles, readings, files, weatherCache,
                   weatherLastFetch, errors, hist, ev>>

Delays == (0 - MaxDelay) .. MaxDelay

\* trafficLevel of both programs on a pair of delays.
InitClassify ==
  /\ AtRest
  /\ probe \in [fn : {"trafficLevel"}, d1 : Delays, d2 : Delays, out : {<<>>}]

Classify ==
  /\ probe.fn = "trafficLevel"
  /\ probe.out = <<>>
  /\ probe' = [probe EXCEPT !.out =
       << [crossings |-> trafficLevel(Num(probe.d1)), server |-> trafficLevel_server(Num(probe.d1))],
          [crossings |-> trafficLevel(Num(probe.d2)), server |-> trafficLevel_server(Num(probe.d2))] >>]
  /\ UNCHANGED SchedulerVars

SpecClassify == InitClassify /\ [][Classify]_vars

\* fetchRoute of either program, and the row checkAll builds from its
\* result, on every shape of response.
FieldValues(vals) == {UNDEF} \cup {Num(n) : n \in vals}

MeasureResponses ==
  { NetError, BadJson, NoRoute, NoSummary } \cup
  { RouteBody(Summary(t, h, n, l)) :
      t \in FieldValues({0, 29, 30, 500, 540, 720, 1020, 1140, 1200, 2580}),
      h \in FieldValues({540, 600}),
      n \in FieldValues({500, 600}),
      l \in FieldValues({1200}) }

InitMeasure ==
  /\ AtRest
  /\ probe \in [fn : {"fetchRoute"}, v : Versions, resp : MeasureResponses, out : {<<>>}]

Measure ==
  /\ probe.fn = "fetchRoute"
  /\ probe.out = <<>>
  /\ LET result == FetchRoute(probe.v, probe.resp) IN
     probe' = [probe EXCEPT !.out =
       << [result |-> result,
           row |-> IF result.ok THEN << Row(probe.v, result.val[1], clock, <<>>, <<>>) >> ELSE <<>>] >>]
  /\ UNCHANGED SchedulerVars

SpecMeasure == InitMeasure /\ [][Measure]_vars

\* The try block of checkAll for one route of the crossings monitor whose
\* routing call succeeds, on every shape of speed and weather response
\* (the weather cache is empty, so fetchWeather calls the provider).
SpeedInputs ==
  { SpeedError, SpeedBadJson, SpeedNone } \cup
  { SpeedBody(c, f) : c \in FieldValues({30, 60}), f \in FieldValues({60}) }

WeatherInputs ==
  { WeatherError, WeatherBadJson, WeatherNone } \cup
  { WeatherBody(t, pr, c, w) : t \in FieldValues({21}), pr \in FieldValues({0, 2}),
                               c \in FieldValues({0, 61}), w \in FieldValues({12}) }

GoodRoute == RouteBody(Summary(Num(1020), Num(540), Num(500), Num(1200)))

InitTelemetry ==
  /\ AtRest
  /\ probe \in [fn : {"telemetry"}, speed : SpeedInputs, weather : WeatherInputs, out : {<<>>}]

Telemetry ==
  /\ probe.fn = "telemetry"
  /\ probe.out = <<>>
  /\ probe' = [probe EXCEPT !.out =
       << TryRoute("crossings", 1, <<>>, File(<< CsvHeader("crossings") >>), fetchRoute(GoodRoute),
                   fetchSpeed(probe.speed), WeatherFetched(probe.weather), clock, TRUE) >>]
  /\ UNCHANGED SchedulerVars

SpecTelemetry == InitTelemetry /\ [][Telemetry]_vars

\* The aggregation on its own, on every pair of histories.
LevelRows == { [level |-> LEVELS[i]] : i \in DOMAIN LEVELS }
Histories == UNION { [1 .. k -> LevelRows] : k \in 0 .. MaxHistory }

InitWorst ==
  /\ AtRest
  /\ probe \in [fn : {"worst"}, a : Histories, b : Histories, out : {<<>>}]

Aggregate ==
  /\ probe.fn = "worst"
  /\ probe.out = <<>>
  /\ probe' = [probe EXCEPT !.out =
       << [ab |-> worstLevel(Latest(probe.a), Latest(probe.b)),
           ba |-> worstLevel(Latest(probe.b), Latest(probe.a))] >>]
  /\ UNCHANGED SchedulerVars

SpecWorst == InitWorst /\ [][Aggregate]_vars

----------------------------------------------------------------------------
(* The scheduler under fair scheduling: the event loop runs main, lets     *)
(* time pass and serves a due timer.  Nothing obliges an upstream provider *)
(* to answer: httpsGet sets no timeout.                                    *)

SpecLive ==
  /\ Init /\ [][Next]_vars
  /\ WF_vars(Main)
  /\ WF_vars(TimerFire)
  /\ WF_vars(\E d \in TickSteps : Tick(d))

----------------------------------------------------------------------------
(* Properties.                                                             *)

Min(a, b) == IF a <= b THEN a ELSE b
Last(seq) == seq[Len(seq)]

\* The cycles that ended route r with one of the outcomes in `set`.
Outcomes(r, set) == { c \in DOMAIN cycles : cycles[c].outcome[r] \in set }

Polling == pc \in {"startup", "running"}

\* C1: within a cycle a route's failure leaves the other routes' polls
\* alone.  Every route's sequence holds one Reading per cycle in which its
\* own routing call succeeded and its log one line per such cycle whose
\* write returned, whatever the other routes' outcomes were; a cycle that
\* is past a route has polled it, and a cycle that returned has polled
\* every route; the last element is the newest Reading built for the route.
C1_FailureIsolation ==
  Polling =>
    \A r \in Routes(ver) :
      /\ Len(readings[r]) = Min(MaxReadings(ver), Cardinality(Outcomes(r, {"ok", "writefail"})))
      /\ Len(files[r].lines) =
           Len(EnsureCsvFile(ver, hist.disk0[r]).lines) + Cardinality(Outcomes(r, {"ok"}))
      /\ \A c \in DOMAIN cycles :
           (cycles[c].at = "done" \/ (cycles[c].at = "route" /\ r < cycles[c].ri))
             => cycles[c].outcome[r] # "none"
      /\ hist.last[r] # <<>> => (readings[r] # <<>> /\ Last(readings[r]) = hist.last[r][1])

\* A cycle in which a route failed and a later route gained its Reading.
C1_Witness ==
  \E c \in DOMAIN cycles : \E a, b \in Routes(ver) :
    /\ a < b
    /\ cycles[c].at = "done"
    /\ cycles[c].outcome[a] = "fail"
    /\ cycles[c].outcome[b] = "ok"
    /\ readings[a] = <<>>
    /\ Len(readings[b]) = 1

\* C2: the scheduler never stops, whatever the upstream does, never
\* answering included: after every cycle that has started, a further cycle
\* starts (unless the timer is due beyond the horizon of the model).
C2_SchedulerNeverStops ==
  \A n \in 1 .. (MaxCycles - 1) :
    (Len(cycles) = n) ~> (Len(cycles) > n \/ (pc = "running" /\ nextFire > MaxClock))

\* C3: a route's sequence never holds more than the cap; once cap + 1
\* Readings have been appended the first one is gone and the last element
\* is the last one appended.
C3_Capacity ==
  \A r \in Routes(ver) :
    /\ Len(readings[r]) <= MaxReadings(ver)
    /\ hist.okPolls[r] >= MaxReadings(ver) + 1 =>
         /\ \A i \in DOMAIN readings[r] : readings[r][i] # hist.first[r][1]
         /\ Last(readings[r]) = hist.last[r][1]

\* Exactly cap + 1 Readings have been appended to the first route.
C3_Witness ==
  /\ hist.okPolls[1] = MaxReadings(ver) + 1
  /\ Len(readings[1]) = MaxReadings(ver)
  /\ Last(readings[1]).timestamp = clock

\* The log of route r was created by this process at startup.
CreatedAtStartup(r) == Polling /\ ~hist.disk0[r].exists

\* C4 as stated: a log created at startup holds the header and one data
\* row per successful poll.
C4_Stated ==
  \A r \in Routes(ver) :
    CreatedAtStartup(r) =>
      /\ files[r].exists
      /\ Len(files[r].lines) = 1 + hist.okPolls[r]

\* C4: a log created at startup holds the header and one data row per
\* successful poll whose log write returned, also past the cap of the
\* in-memory sequence.
C4_LogRows ==
  \A r \in Routes(ver) :
    CreatedAtStartup(r) =>
      /\ files[r].exists
      /\ files[r].lines[1] = CsvHeader(ver)
      /\ Len(files[r].lines) = 1 + hist.okPolls[r] - hist.writeFails[r]

\* More successful polls than the cap, all of them in the log.
C4_Witness ==
  /\ CreatedAtStartup(1)
  /\ hist.okPolls[1] > MaxReadings(ver)
  /\ hist.writeFails[1] = 0
  /\ Len(files[1].lines) = 1 + hist.okPolls[1]
  /\ Len(readings[1]) < hist.okPolls[1]

Rank(level) == CASE level = "LOW" -> 1 [] level = "MODERATE" -> 2 [] level = "HIGH" -> 3

C6_DelayAndLevel ==
  \A r \in Routes(ver) : \A i \in DOMAIN readings[r] :
    LET row == readings[r][i] IN
    /\ IsNum(row.trafficMin) /\ IsNum(row.normalMin) /\ IsNum(row.delay)
    /\ row.delay.v >= 0
    /\ row.delay.v = (IF row.trafficMin.v > row.normalMin.v
                      THEN row.trafficMin.v - row.normalMin.v ELSE 0)
    /\ row.level = TrafficLevel(ver, row.delay)

\* C7: when a route's poll fails with a routing error nothing is recorded
\* for it, in memory or in any log, and the error is reported.
C7_FailureRecordsNothing ==
  [][ (ev'.type = "route" /\ ev'.res = "fail")
        => (readings' = readings /\ files' = files /\ errors' = errors + 1) ]_vars

\* A route's poll has just failed and the route has no Reading.
C7_Witness ==
  /\ ev.type = "route" /\ ev.res = "fail"
  /\ errors = 1
  /\ readings[ev.route] = <<>>
  /\ cycles[ev.cyc].outcome[ev.route] = "fail"

\* The response carries a route whose summary has a travel time and a length.
Complete(resp) ==
  /\ resp.net = "ok" /\ resp.json
  /\ Len(resp.routes) > 0
  /\ resp.routes[1].summary # <<>>
  /\ resp.routes[1].summary[1].travelTimeInSeconds # UNDEF
  /\ resp.routes[1].summary[1].lengthInMeters # UNDEF

\* C8: fetchRoute fails on a network error, on invalid JSON, on a body
\* without routes and on a summary that is missing or lacks the travel
\* time or the length; a Reading is built only from a complete response.
C8_MalformedRejected ==
  (probe.fn = "fetchRoute" /\ probe.out # <<>>) =>
    /\ ~Complete(probe.resp) => ~probe.out[1].result.ok
    /\ probe.out[1].row # <<>> => Complete(probe.resp)

\* C9: when the log write of a successful poll throws, the error is
\* reported, the log is unchanged and the Reading is the last element of
\* the route's in-memory sequence.
C9_WriteFailure ==
  [][ (ev'.type = "route" /\ ev'.res = "writefail")
        => LET r == ev'.route IN
           /\ errors' = errors + 1
           /\ files' = files
           /\ readings'[r] # <<>>
           /\ Last(readings'[r]) = hist'.last[r][1]
           /\ Last(readings'[r]).timestamp = clock
           /\ Len(readings'[r]) = Min(MaxReadings(ver), Len(readings[r]) + 1)
           /\ \A q \in Routes(ver) \ {r} : readings'[q] = readings[q] ]_vars

\* A log write has just thrown: the Reading is in memory, not in the log.
C9_WriteFailureWitness ==
  /\ ev.type = "route" /\ ev.res = "writefail"
  /\ errors = 1
  /\ Last(readings[ev.route]).timestamp = clock
  /\ Len(files[ev.route].lines) = Len(EnsureCsvFile(ver, hist.disk0[ev.route]).lines)

\* The upstream weather call of entry i was answered without a snapshot.
WeatherCallFailed(i) ==
  LET cyc == cycles[hist.wxIssued[i].cyc] IN cyc.at # "weather" /\ cyc.weather = <<>>

\* C10: fetchWeather calls less than the cache lifetime apart trigger one
\* upstream call between them, overlapping cycles included: two upstream
\* weather calls are issued less than the lifetime apart only when the
\* earlier one had failed and left nothing to cache.
C10_OneCallPerWindow ==
  \A i, j \in DOMAIN hist.wxIssued :
    (i < j /\ hist.wxIssued[j].at - hist.wxIssued[i].at < WeatherTtlMs)
      => WeatherCallFailed(i)

\* C11: the severity shown for a crossing is the maximum of its two routes'
\* latest levels under LOW < MODERATE < HIGH, for every pair of levels and
\* in either route order.
C11_WorstSeverity ==
  (probe.fn = "worst" /\ probe.out # <<>> /\ probe.a # <<>> /\ probe.b # <<>>) =>
    LET la == Last(probe.a).level
        lb == Last(probe.b).level
        w == probe.out[1] IN
    /\ w.ab # <<>>
    /\ w.ab[1] \in {la, lb}
    /\ Rank(w.ab[1]) >= Rank(la) /\ Rank(w.ab[1]) >= Rank(lb)
    /\ w.ba = w.ab

\* Latest levels LOW and HIGH, in this order, shown as HIGH.
C11_Witness ==
  /\ probe.fn = "worst" /\ probe.out # <<>>
  /\ Len(probe.a) = 2 /\ Last(probe.a).level = "LOW" /\ probe.a[1].level = "HIGH"
  /\ Len(probe.b) = 1 /\ Last(probe.b).level = "HIGH"
  /\ probe.out[1].ab = << "HIGH" >>

\* C12: the first poll cycle starts at startup, before any interval has
\* elapsed; every later cycle is started by the timer when it is due, and
\* the timer is re-armed one interval later.
C12_FirstCycleImmediate ==
  [][ Len(cycles') > Len(cycles) =>
        /\ Len(cycles') = Len(cycles) + 1
        /\ IF Len(cycles) = 0
           THEN /\ pc = "start" /\ pc' = "startup"
                /\ clock < IntervalMs
                /\ cycles'[1].startup
           ELSE /\ pc = "running"
                /\ clock >= nextFire
                /\ nextFire >= IntervalMs
                /\ nextFire' = clock + IntervalMs
                /\ ~cycles'[Len(cycles')].startup ]_vars

\* The startup cycle began at time 0 and the timer has begun a second one.
C12_Witness ==
  /\ Len(cycles) = 2
  /\ cycles[1].startup /\ ~cycles[2].startup
  /\ ev.type = "begin" /\ ev.cyc = 2
  /\ clock = IntervalMs

\* The routing call of route r of cycle c has been issued.
CallIssued(c, r) ==
  \/ cycles[c].at = "done"
  \/ cycles[c].at = "route" /\ cycles[c].ri >= r

\* The routing call of route r of cycle c is outstanding.
CallOutstanding(c, r) == cycles[c].at = "route" /\ cycles[c].ri = r

\* C13: within one cycle the routes are polled simultaneously: once a
\* cycle is polling, the call of every route has been issued, whether or
\* not the calls of the other routes have resolved.
C13_Simultaneous ==
  \A c \in DOMAIN cycles : \A r \in Routes(ver) :
    cycles[c].at = "route" => CallIssued(c, r)

\* C14: at no time are two routing calls for the same route outstanding.
C14_OneOutstandingPerRoute ==
  \A c1, c2 \in DOMAIN cycles : \A r \in Routes(ver) :
    (CallOutstanding(c1, r) /\ CallOutstanding(c2, r)) => c1 = c2

\* The instants the model's clock takes, and the one before the start at
\* which an earlier run wrote its row.
Instants == { k * IntervalMs : k \in (0 - 1) .. MaxIntervals }

\* The instant a log line's first cell renders.
LineInstant(line) == CHOOSE t \in Instants : Quoted(IsoString(t)) = line[1]

\* C15: each route's in-memory sequence and the data rows of its log are in
\* strictly increasing timestamp order.
C15_StrictlyOrdered ==
  \A r \in Routes(ver) :
    /\ \A i \in 1 .. Len(readings[r]) - 1 :
         readings[r][i].timestamp < readings[r][i + 1].timestamp
    /\ \A i \in 2 .. Len(files[r].lines) - 1 :
         LineInstant(files[r].lines[i]) < LineInstant(files[r].lines[i + 1])

TimerDue == pc = "running" /\ clock >= nextFire /\ Len(cycles) < MaxCycles

\* C16: a due timer starts the next cycle whatever earlier cycles are
\* doing; starting a cycle leaves the earlier cycles as they are; a call
\* that succeeds appends exactly one Reading, at the end of its route's
\* sequence (arrival order), and touches no other route and no other cycle.
C16_OverlappingCycles ==
  [][ /\ TimerDue => ENABLED TimerFire
      /\ Len(cycles') > Len(cycles) => SubSeq(cycles', 1, Len(cycles)) = cycles
      /\ (ev'.type = "route" /\ ev'.res \in {"ok", "writefail"}) =>
           LET r == ev'.route IN
           /\ readings'[r] = PushReading(readings[r], hist'.last[r][1], MaxReadings(ver))
           /\ hist'.last[r][1].timestamp = clock
           /\ \A q \in Routes(ver) \ {r} : readings'[q] = readings[q]
           /\ \A c \in DOMAIN cycles \ {ev'.cyc} : cycles'[c] = cycles[c] ]_vars

\* A later cycle has recorded the route whose call an earlier cycle still
\* waits for.
C16_Witness ==
  \E c1, c2 \in DOMAIN cycles :
    /\ c1 < c2
    /\ cycles[c1].at = "route"
    /\ cycles[c2].outcome[cycles[c1].ri] = "ok"
    /\ ev.type = "route" /\ ev.cyc = c2 /\ ev.route = cycles[c1].ri
    /\ readings[ev.route] # <<>>

\* C17: in every cycle one routing call is issued per configured route, in
\* turn: the routes polled are exactly those before the loop index, an
\* outcome once set is never replaced (no retry within the cycle), the
\* index moves by one, and the cycle returns only after the last route.
C17_OneCallPerRoutePerCycle ==
  [][ \A c \in DOMAIN cycles :
        LET old == cycles[c]
            new == cycles'[c] IN
        /\ new.ri >= old.ri /\ new.ri <= old.ri + 1
        /\ \A r \in Routes(ver) :
             /\ old.outcome[r] # "none" => new.outcome[r] = old.outcome[r]
             /\ (new.outcome[r] # "none") <=> (r < new.ri)
        /\ (new.at = "done") <=> (new.ri = Len(RouteList(ver)) + 1) ]_vars

\* The only cycle so far has returned after one call per route, one of
\* which failed.
C17_Witness ==
  /\ Len(cycles) = 1
  /\ cycles[1].at = "done"
  /\ \E r \in Routes(ver) : cycles[1].outcome[r] = "fail"
  /\ hist.polls = Len(RouteList(ver))

\* C18: handling an HTTP request, whatever its path and whenever it
\* arrives, leaves every in-memory sequence, every log file and the weather
\* cache unchanged, starts no cycle and issues no upstream call.
C18_RequestsChangeNothing ==
  [][ ev'.type = "http" =>
        /\ readings' = readings
        /\ files' = files
        /\ weatherCache' = weatherCache /\ weatherLastFetch' = weatherLastFetch
        /\ cycles' = cycles
        /\ hist' = hist
        /\ nextFire' = nextFire /\ pc' = pc ]_vars

\* A page has just been served while a cycle waits for an upstream call
\* and the store holds a Reading.
C18_Witness ==
  /\ ev.type = "http" /\ ev.response.status = 200 /\ ev.response.type = "text/html"
  /\ \E c \in DOMAIN cycles : cycles[c].at = "route"
  /\ \E r \in Routes(ver) : readings[r] # <<>>

\* The response carries a route with a summary.
HasSummary(resp) ==
  /\ resp.net = "ok" /\ resp.json
  /\ Len(resp.routes) > 0
  /\ resp.routes[1].summary # <<>>

SpeedSample(resp) ==
  /\ resp.net = "ok" /\ resp.json /\ resp.fd # <<>>
  /\ IsNum(resp.fd[1].currentSpeed) /\ IsNum(resp.fd[1].freeFlowSpeed)

\* The weather response carries all current values.
WeatherSample(resp) ==
  /\ resp.net = "ok" /\ resp.json /\ resp.current # <<>>
  /\ IsNum(resp.current[1].temperature_2m) /\ IsNum(resp.current[1].precipitation)
  /\ IsNum(resp.current[1].weather_code) /\ IsNum(resp.current[1].wind_speed_10m)

\* C20: when the routing call succeeds while the speed call or the weather
\* call errors, returns no data or returns a malformed payload, the Reading
\* is recorded, nothing is reported, and its speed (weather) field is null.
C20_OptionalTelemetry ==
  (probe.fn = "telemetry" /\ probe.out # <<>>) =>
    LET done == probe.out[1] IN
    /\ Len(done.seq) = 1
    /\ Len(done.file.lines) = 2
    /\ ~done.reported
    /\ ~SpeedSample(probe.speed) => done.seq[1].speed = <<>>
    /\ ~WeatherSample(probe.weather) => done.seq[1].weather = <<>>

\* C21: without TOMTOM_KEY the process terminates in main() before anything
\* is scheduled: no cycle has been started (so no call was issued), the
\* timer is not installed, the disk is as main() found it and the server
\* never listened (the exit is the only step of the behaviour); the process
\* never terminates once a cycle has started.
C21_ExitBeforeScheduling ==
  /\ ~env.tomtomKey => pc \in {"start", "exited"}
  /\ pc = "exited" =>
       /\ cycles = <<>> /\ hist.polls = 0 /\ hist.wxIssued = <<>>
       /\ nextFire = 0 /\ clock = 0
       /\ files = hist.disk0
       /\ \A r \in Routes(ver) : readings[r] = <<>>
       /\ ev.type = "exit" /\ errors = 1
  /\ cycles # <<>> => pc \in {"startup", "running"}

\* The process has exited for want of the key, on a disk without logs.
C21_Witness ==
  /\ ~env.tomtomKey /\ pc = "exited"
  /\ \A r \in Routes(ver) : ~files[r].exists

\* s is t or the beginning of t.
IsPrefix(s, t) == Len(s) <= Len(t) /\ SubSeq(t, 1, Len(s)) = s

\* The header is the first line of the log and no other line of it.
HeaderOnce(f) ==
  f.exists => /\ f.lines # <<>>
              /\ \A i \in DOMAIN f.lines : (f.lines[i] = CsvHeader(ver)) <=> (i = 1)

\* C22: over runs of the process on one disk every log only grows at its
\* end: a step leaves an existing log in place with its earlier content as
\* a prefix, a log that appears starts with the header, the header is the
\* first line and no other, and a restart leaves every log as it is while
\* the in-memory sequences are empty again.
C22_AppendOnlyAcrossRestarts ==
  /\ [](\A r \in Routes(ver) : HeaderOnce(files[r]))
  /\ [][\A r \in Routes(ver) :
          /\ files[r].exists => files'[r].exists /\ IsPrefix(files[r].lines, files'[r].lines)
          /\ (~files[r].exists /\ files'[r].exists) => files'[r].lines = << CsvHeader(ver) >>
          /\ (pc # "start" /\ pc' = "start") => files'[r] = files[r] /\ readings'[r] = <<>>]_vars

\* The second run of the process has added a row to a log that holds a row
\* of the first run; the sequence holds the Reading of the second run only.
C22_Witness ==
  /\ hist.restarts = 1
  /\ Len(readings[1]) = 1
  /\ files[1].exists /\ Len(files[1].lines) >= 3
  /\ Len(hist.disk0[1].lines) = Len(files[1].lines) - 1

\* The credentials a Basic payload carries: the user is the text before
\* the first colon, the password all of the text after it.
SentUser(text) == Split(text)[1]
SentPass(text) == SubSeq(text, Len(SentUser(text)) + 2, Len(text))

\* C23: a download request is answered with the log exactly when it carries
\* Basic credentials whose user and password are the configured ones,
\* whatever password is configured; every other request gets 401 and no
\* log content.
C23_DownloadIffCredentials ==
  (ev.type = "http" /\ IsDownload(ev.req.path)) =>
    LET auth == ev.req.auth
        right == /\ auth # NoAuth
                 /\ auth[1].scheme = "Basic"
                 /\ SentUser(auth[1].text) = DOWNLOAD_USER
                 /\ SentPass(auth[1].text) = downloadPass IN
    IF right
    THEN /\ ev.response.status = 200
         /\ ev.response.body = files[DownloadRoute(ev.req.path)].lines
    ELSE ev.response.status = 401

\* The Reading built from the response, when one is built with a delay
\* that is a number.
MeasuredRow == probe.out[1].row[1]
Measured == probe.fn = "fetchRoute" /\ probe.out # <<>> /\ probe.out[1].row # <<>>
                /\ IsNum(probe.out[1].row[1].delay)

C25_StartsWithReadmeRoutes ==
  (ver = "server" /\ env.ROUTES = "readme" /\ env.tomtomKey) => pc # "exited"

\* The latest Reading of route r in the response of the request just
\* served, for the endpoints that show one.
ServesLatest == ev.type = "http" /\ ev.req.path \in {"/api/data", "/", "/metehan", "/api/readings"}
ServedLatest(r) ==
  LET body == ev.response.body IN
  IF ver = "server"
  THEN IF ev.req.path = "/" THEN body[r].latest
       ELSE IF body.readings[r] = <<>> THEN <<>> ELSE << body.readings[r][Len(body.readings[r])] >>
  ELSE IF ev.req.path = "/api/data" THEN body[r]
       ELSE IF ev.req.path = "/" THEN body.cards[CROSSINGS[r].ci + 1].latest[CROSSINGS[r].ri + 1]
       ELSE body.routes[CROSSINGS[r].ri + 1].latest
ServedRoutes ==
  IF ver = "crossings" /\ ev.req.path = "/metehan"
  THEN { r \in Routes(ver) : CROSSINGS[r].ci = 0 } ELSE Routes(ver)

\* C26: the latest Reading every endpoint serves for a route is the
\* Reading most recently built for it; it is absent exactly when no poll of
\* the route has succeeded since the process started, and no step (a
\* failed poll in particular) makes an available latest Reading absent.
C26_LatestServed ==
  /\ [](/\ ServesLatest => \A r \in ServedRoutes : ServedLatest(r) = hist.last[r]
        /\ \A r \in Routes(ver) : /\ Latest(readings[r]) = hist.last[r]
                                  /\ (Latest(readings[r]) = <<>>) <=> (hist.okPolls[r] = 0))
  /\ [][\A r \in Routes(ver) : Latest(readings[r]) # <<>> => Latest(readings'[r]) # <<>>]_vars

\* /api/data is served after the first route answered in the startup cycle
\* and failed in the next: its latest is still the Reading of the startup
\* cycle.
C26_Witness ==
  /\ ev.type = "http" /\ ev.req.path = "/api/data"
  /\ Len(cycles) >= 2
  /\ cycles[1].outcome[1] = "ok" /\ cycles[2].outcome[1] = "fail"
  /\ ev.response.body[1] # <<>> /\ ev.response.body[1] = hist.last[1]
  /\ ev.response.body[1][1].timestamp = 0 /\ clock > 0

\* C27: the chart window the dashboard of server.js serves for a route is
\* the last min(12, len) Readings of its sequence, oldest first, whatever
\* the length len of the sequence.
C27_RecentWindow ==
  (ver = "server" /\ ev.type = "http" /\ ev.req.path = "/") =>
    \A r \in Routes(ver) :
      LET chart == ev.response.body[r].chart
          len == Len(readings[r]) IN
      /\ Len(chart) = Min(CHART_POINTS, len)
      /\ \A i \in 1 .. Len(chart) : chart[i] = readings[r][len - Len(chart) + i]

\* The dashboard is served with one sequence shorter than the window and
\* one longer: the first is charted whole, the second from its third
\* Reading on.
C27_Witness ==
  /\ ver = "server" /\ ev.type = "http" /\ ev.req.path = "/"
  /\ Len(readings[1]) = 5 /\ Len(ev.response.body[1].chart) = 5
  /\ Len(readings[2]) = 14 /\ Len(ev.response.body[2].chart) = 12
  /\ ev.response.body[2].chart[1] = readings[2][3]

\* C28: a Reading never changes once it is in a sequence: every step
\* leaves each sequence as it was, but for at most one Reading evicted at
\* the head and at most one appended at the tail; every Reading that stays
\* keeps all its fields and its place relative to the others.
C28_ReadingsImmutable ==
  [][\A r \in Routes(ver) :
       \E k \in 0 .. 1, n \in 0 .. 1 :
         /\ Len(readings'[r]) = Len(readings[r]) - k + n
         /\ \A i \in 1 .. Len(readings[r]) - k : readings'[r][i] = readings[r][i + k]]_vars

\* Two Readings have been appended to a sequence one short of the cap: the
\* oldest Reading is gone, the second oldest is the head, the others follow
\* unchanged.
C28_Witness ==
  /\ hist.okPolls[1] = MaxReadings(ver) + 1
  /\ Len(readings[1]) = MaxReadings(ver)
  /\ readings[1][1] = OldReading(ver, 2)
  /\ readings[1][MaxReadings(ver) - 2] = OldReading(ver, MaxReadings(ver) - 1)
  /\ readings[1][MaxReadings(ver)] = hist.last[1][1]

\* The summary of the response a Reading was built from, and minutes
\* rounded as Math.round(x / 60) rounds them.
MeasuredSummary == probe.resp.routes[1].summary[1]
Minutes(sec) == (sec + 30) \div 60
CarriesNoTraffic == Measured /\ MeasuredSummary.noTrafficTravelTimeInSeconds # UNDEF

ColumnText(name, r, row) ==
  LET cfg == RouteList(ver)[r] IN
  CASE name = "timestamp" -> Quoted(IsoString(row.timestamp))
    [] name = "crossing" -> Quoted(cfg.crossing)
    [] name = "route" -> Quoted(cfg.name)
    [] name = "origin" -> Quoted(cfg.origin)
    [] name = "destination" -> Quoted(cfg.dest)
    [] name = "traffic_min" -> JsText(row.trafficMin)
    [] name = "normal_min" -> JsText(row.normalMin)
    [] name = "delay_min" -> JsText(row.delay)
    [] name = "traffic_level" -> Quoted(row.level)

\* C30: the line a step appends to a route's log has one cell per column
\* of the log's header, in the header's order, each holding the value of
\* that column for the Reading the same step appended to the sequence,
\* strings in double quotes; the header is that of the program.
C30_RowMatchesHeader ==
  (ev.type = "route" /\ ev.res = "ok") =>
    LET r == ev.route
        header == files[r].lines[1]
        line == Last(files[r].lines)
        row == Last(readings[r]) IN
    /\ Len(files[r].lines) >= 2
    /\ header = IF ver = "crossings"
                THEN <<"timestamp", "crossing", "route", "traffic_min", "normal_min", "delay_min",
                       "traffic_level">>
                ELSE <<"timestamp", "route", "origin", "destination", "traffic_min", "normal_min",
                       "delay_min", "traffic_level">>
    /\ Len(line) = Len(header)
    /\ \A i \in DOMAIN header : line[i] = ColumnText(header[i], r, row)

\* server.js has appended the row of a Reading of 17 minutes against a
\* baseline of 9 to the log of its second route.
C30_Witness ==
  /\ ver = "server" /\ ev.type = "route" /\ ev.res = "ok" /\ ev.route = 2
  /\ Last(files[2].lines) =
       << Quoted(IsoString(clock)), "\"North to South\"", "\"North\"", "\"South\"",
          "17", "9", "8", "\"MODERATE\"" >>

\* The columns of a log that hold the fields of a Reading, and the cells a
\* line holds in them.
ReadingColumns == <<"timestamp", "traffic_min", "normal_min", "delay_min", "traffic_level">>
ColumnOf(name) == CHOOSE i \in DOMAIN CsvHeader(ver) : CsvHeader(ver)[i] = name
ReadingPositions == [c \in DOMAIN ReadingColumns |-> ColumnOf(ReadingColumns[c])]
ReadingCells(at, line) == [c \in DOMAIN ReadingColumns |-> line[at[c]]]

\* The line holds, in the columns of a Reading, the fields of `row`.
SameReading(at, line, r, row) ==
  \A c \in DOMAIN ReadingColumns : line[at[c]] = ColumnText(ReadingColumns[c], r, row)

\* The same cells for a Reading in memory.
ReadingTexts(r, row) == [c \in DOMAIN ReadingColumns |-> ColumnText(ReadingColumns[c], r, row)]

\* The data rows the process has appended to the log of route r since it
\* started (all of them, the i-th), and the i-th Reading it has pushed to
\* the route's sequence.
LinesAtStart(r) == IF hist.disk0[r].exists THEN Len(hist.disk0[r].lines) ELSE 1
RowsSinceStart(r) == SubSeq(files[r].lines, LinesAtStart(r) + 1, Len(files[r].lines))
RowSinceStart(r, i) == files[r].lines[LinesAtStart(r) + i]
PushedAt(r, i) ==
  IF i <= Len(hist.evicted[r]) THEN hist.evicted[r][i] ELSE readings[r][i - Len(hist.evicted[r])]

\* s is t with some of its elements left out.
RECURSIVE IsSubsequence(_, _)
IsSubsequence(s, t) ==
  IF s = <<>> THEN TRUE
  ELSE IF t = <<>> THEN FALSE
  ELSE IF Head(s) = Head(t) THEN IsSubsequence(Tail(s), Tail(t))
  ELSE IsSubsequence(s, Tail(t))

\* C31: while no write to a route's log has failed since the process
\* started, the route's sequence is, field for field and in order, the
\* last min(cap, k) rows appended to the log since the start, k the number
\* of successful polls of the route; after write failures the rows
\* appended since the start are a subsequence of the Readings pushed (the
\* rows and the Readings agree up to the last MaxPolls rows, and the rest
\* of the rows is a subsequence of the rest of the Readings).
C31_MemoryMirrorsLog ==
  \A r \in Routes(ver) :
    (pc \in {"startup", "running"}) =>
      LET at == ReadingPositions
          k == hist.okPolls[r]
          n == Len(files[r].lines) - LinesAtStart(r)
          len == Len(readings[r])
          p == IF n > MaxPolls THEN n - MaxPolls ELSE 0 IN
      /\ Len(hist.evicted[r]) + len = k
      /\ hist.writeFails[r] = 0 =>
           /\ n = k
           /\ len = Min(MaxReadings(ver), k)
           /\ \A i \in 1 .. len : SameReading(at, RowSinceStart(r, k - len + i), r, readings[r][i])
      /\ hist.writeFails[r] > 0 =>
           /\ n = k - hist.writeFails[r]
           /\ \A i \in 1 .. p : SameReading(at, RowSinceStart(r, i), r, PushedAt(r, i))
           /\ IsSubsequence([i \in 1 .. n - p |-> ReadingCells(at, RowSinceStart(r, p + i))],
                            [i \in 1 .. k - p |-> ReadingTexts(r, PushedAt(r, p + i))])

\* After more successful polls than the cap, one of them with a failed
\* write: the sequence is full and the log since the start is one row
\* short of the Readings pushed.
C31_Witness ==
  /\ pc = "running"
  /\ hist.okPolls[1] > MaxReadings(ver)
  /\ hist.writeFails[1] = 1
  /\ Len(readings[1]) = MaxReadings(ver)
  /\ Len(hist.evicted[1]) >= 1
  /\ Len(RowsSinceStart(1)) = hist.okPolls[1] - 1

\* The polls that ended in the catch of checkAll: a rejected routing call
\* or a log write that threw.
Caught == { cr \in (DOMAIN cycles) \X Routes(ver) : cycles[cr[1]].outcome[cr[2]] \in {"fail", "writefail"} }

\* C32: whatever upstream calls reject and whatever log writes throw, no
\* invocation of checkAll rejects: it is awaiting a call or it has
\* returned, a failure of a route is caught and reported and the loop goes
\* on to the next route, the process does not exit, and main, which awaits
\* the startup cycle, goes on to install the timer when that cycle returns.
C32_CheckAllNeverRejects ==
  /\ cycles # <<>> => pc \in {"startup", "running"}
  /\ errors = Cardinality(Caught)
  /\ \A c \in DOMAIN cycles :
       /\ cycles[c].at \in {"weather", "route", "done"}
       /\ cycles[c].at = "route" =>
            /\ cycles[c].ri \in Routes(ver)
            /\ \A r \in Routes(ver) : (cycles[c].outcome[r] # "none") <=> (r < cycles[c].ri)
       /\ cycles[c].at = "done" => \A r \in Routes(ver) : cycles[c].outcome[r] # "none"
       /\ cycles[c].startup => ((cycles[c].at = "done") <=> (pc = "running" /\ nextFire >= IntervalMs))

\* server.js: a log write threw in the startup cycle and a routing call
\* was rejected in the first cycle of the timer; both cycles returned and
\* the process goes on.
C32_Witness ==
  /\ ver = "server" /\ pc = "running" /\ Len(cycles) = 2
  /\ cycles[1].at = "done" /\ cycles[2].at = "done" /\ ~cycles[2].startup
  /\ \E r \in Routes(ver) : cycles[1].outcome[r] = "writefail"
  /\ \E r \in Routes(ver) : cycles[2].outcome[r] = "fail"
  /\ errors = 2

\* C33: the timer is installed when the startup cycle has returned: while
\* that cycle is in progress there is no timer and no other cycle; a later
\* cycle starts only after the startup cycle has returned, no sooner than
\* one interval after it returned, and the second cycle exactly then.
C33_TimerAfterStartupCycle ==
  /\ [](pc = "startup" => (nextFire = 0 /\ Len(cycles) = 1 /\ cycles[1].at # "done"))
  /\ [][(Len(cycles') > Len(cycles) /\ Len(cycles) >= 1) =>
          /\ cycles[1].startup /\ cycles[1].at = "done"
          /\ hist.startupEnd # <<>>
          /\ clock >= hist.startupEnd[1] + IntervalMs
          /\ Len(cycles) = 1 => clock = hist.startupEnd[1] + IntervalMs]_vars

\* The startup cycle took one interval to return; the second cycle has
\* begun one interval after that, two intervals after startup.
C33_Witness ==
  /\ Len(cycles) = 2
  /\ hist.startupEnd = << IntervalMs >>
  /\ ev.type = "begin" /\ ev.cyc = 2
  /\ clock = 2 * IntervalMs

\* C34: on the main page the aggregate severity of a crossing is absent
\* when one of its two routes has no Reading, whatever the other route's
\* latest level, and present exactly when both have one.
C34_AggregateNeedsBothRoutes ==
  (ver = "crossings" /\ ev.type = "http" /\ ev.req.path = "/") =>
    \A i \in DOMAIN CROSSING_IDS :
      LET card == ev.response.body.cards[i]
          a == readings[RouteOf(i - 1, 0)]
          b == readings[RouteOf(i - 1, 1)] IN
      /\ (card.worst # <<>>) <=> (a # <<>> /\ b # <<>>)
      /\ card.worst # <<>> => card.worst[1] \in {"LOW", "MODERATE", "HIGH"}

\* The main page is served while the first route of the first crossing has
\* a Reading above LOW and the second has none: the crossing shows no
\* aggregate.
C34_Witness ==
  /\ ver = "crossings" /\ ev.type = "http" /\ ev.req.path = "/"
  /\ readings[RouteOf(0, 0)] # <<>> /\ Last(readings[RouteOf(0, 0)]).level # "LOW"
  /\ readings[RouteOf(0, 1)] = <<>>
  /\ ev.response.body.cards[1].worst = <<>>

\* C35: a cycle samples the weather once, before it polls a route: a
\* routing call settles only for a cycle whose fetchWeather has returned,
\* the value a cycle got never changes afterwards, every Reading a cycle
\* records carries that value, and the value is absent exactly when
\* fetchWeather returned null (a failed upstream call), a snapshot when it
\* returned the cache or a fresh one.
C35_OneWeatherPerCycle ==
  [][ver = "crossings" =>
       /\ \A c \in DOMAIN cycles :
            cycles[c].at # "weather" =>
              (cycles'[c].at # "weather" /\ cycles'[c].weather = cycles[c].weather)
       /\ ev'.type = "route" =>
            /\ cycles[ev'.cyc].at = "route"
            /\ ev'.res \in {"ok", "writefail"} =>
                 Last(readings'[ev'.route]).weather = cycles[ev'.cyc].weather
       /\ ev'.type = "weather" =>
            /\ cycles[ev'.cyc].at = "weather"
            /\ (cycles'[ev'.cyc].weather = <<>>) <=> (ev'.res = "null")
            /\ ev'.res # "null" => cycles'[ev'.cyc].weather = weatherCache'
       /\ (ev'.type = "begin" /\ ev'.res = "hit") =>
            (cycles'[ev'.cyc].weather = weatherCache /\ weatherCache # <<>>)]_vars

\* The startup cycle has recorded its first two routes: both Readings
\* carry the snapshot the cycle sampled.
C35_Witness ==
  /\ ver = "crossings" /\ Len(cycles) = 1
  /\ cycles[1].at = "route" /\ cycles[1].ri = 3
  /\ cycles[1].weather # <<>>
  /\ Len(readings[1]) = 1 /\ Len(readings[2]) = 1
  /\ readings[1][1].weather = cycles[1].weather
  /\ readings[2][1].weather = cycles[1].weather

----------------------------------------------------------------------------
(* The weather cache past its lifetime.                                    *)

\* The crossings monitor with a snapshot fetched one cache lifetime ago:
\* the weather service answered then, the routing service has not answered
\* the polls made so far, the last cycle has returned and the timer is due.
StaleSnapshot == WeatherSnapshot(WeatherBody(Num(25), Num(0), Num(3), Num(5)).current[1])

InitStale ==
  /\ env = Env(TRUE, DOWNLOAD_PASS, "default")
  /\ ver = "crossings"
  /\ pc = "running"
  /\ clock = 0
  /\ nextFire = 0
  /\ cycles = <<>>
  /\ readings = [r \in Routes(ver) |-> <<>>]
  /\ files = [r \in Routes(ver) |-> File(<< CsvHeader(ver) >>)]
  /\ weatherCache = << StaleSnapshot >>
  /\ weatherLastFetch = 0 - WeatherTtlMs
  /\ errors = 0
  /\ hist = [Hist0(ver, files) EXCEPT !.budget = MaxFaults + 1, !.polls = MaxPolls - 2]
  /\ ev = Event("init", 0, 0, "")
  /\ probe = NoProbe

SpecStale == InitStale /\ [][NextFull]_vars

\* C36: a fetchWeather call that fails returns null, not the cached
\* snapshot, and leaves weatherCache and weatherLastFetch as they were;
\* weatherLastFetch changes only in a successful upstream call, to the time
\* of that call's return; and a call that finds the cache absent or past
\* its lifetime issues an upstream call, so after a failed refresh every
\* call does until one succeeds.
C36_FailedRefreshKeepsCache ==
  [][ver = "crossings" =>
       /\ (ev'.type = "weather" /\ ev'.res = "null") =>
            /\ cycles'[ev'.cyc].weather = <<>>
            /\ weatherCache' = weatherCache
            /\ weatherLastFetch' = weatherLastFetch
       /\ weatherLastFetch' # weatherLastFetch =>
            /\ ev'.type = "weather" /\ ev'.res = "snapshot"
            /\ weatherLastFetch' = clock
       /\ weatherCache' # weatherCache =>
            (ev'.type = "weather" /\ ev'.res = "snapshot")
       /\ (ev'.type = "begin" /\ ~CacheFresh(weatherCache, weatherLastFetch, clock)) =>
            /\ ev'.res = "miss"
            /\ cycles'[ev'.cyc].at = "weather"
            /\ Len(hist'.wxIssued) = Len(hist.wxIssued) + 1]_vars

\* The refresh of the first cycle failed on the expired snapshot, the
\* cycle went on without weather, cache and fetch time are as before, and
\* the next cycle has issued a new weather call.
C36_Witness ==
  /\ ver = "crossings"
  /\ weatherCache = << StaleSnapshot >>
  /\ weatherLastFetch = 0 - WeatherTtlMs
  /\ Len(cycles) = 2
  /\ cycles[1].at # "weather" /\ cycles[1].weather = <<>>
  /\ cycles[2].at = "weather"
  /\ Len(hist.wxIssued) = 2

----------------------------------------------------------------------------
(* The download endpoint over logs that grow and disappear.                *)

\* Something other than the program removes the log of route r from the
\* disk (the program itself never deletes a file); the next appendFileSync
\* creates it again.
RemoveLog(r) ==
  /\ pc \in {"startup", "running"}
  /\ r \in Routes(ver)
  /\ files[r].exists
  /\ files' = [files EXCEPT ![r] = NoFile]
  /\ ev' = Event("unlink", 0, r, "")
  /\ UNCHANGED <<env, ver, pc, clock, nextFire, cycles, readings, weatherCache,
                 weatherLastFetch, errors, hist, probe>>

\* The download requests considered: the slug of every route and a slug
\* of no route, without credentials and with the configured ones.
SlugRequests ==
  { Request(p, a) : p \in { "/download/" \o SLUGS[i] : i \in DOMAIN SLUGS } \cup { "/download/nope" },
                    a \in { NoAuth, Basic(DOWNLOAD_USER, DOWNLOAD_PASS) } }

InitDownload ==
  /\ env = Env(TRUE, DOWNLOAD_PASS, "default")
  /\ ver = "crossings"
  /\ pc = "start"
  /\ clock = 0
  /\ nextFire = 0
  /\ cycles = <<>>
  /\ readings = [r \in Routes(ver) |-> <<>>]
  /\ files \in Disks(ver)
  /\ weatherCache = <<>>
  /\ weatherLastFetch = 0
  /\ errors = 0
  /\ hist = Hist0(ver, files)
  /\ ev = Event("init", 0, 0, "")
  /\ probe = NoProbe

NextDownload ==
  \/ Main
  \/ \E c \in 1 .. MaxCycles, resp \in WeatherResponses : WeatherResolve(c, resp)
  \/ \E c \in 1 .. MaxCycles, resp \in RouteResponses, sp \in SpeedResponses, w \in BOOLEAN :
       /\ ~FetchRoute(ver, resp).ok => (sp = SpeedError /\ w)
       /\ RouteResolve(c, resp, sp, w)
  \/ \E req \in SlugRequests : HttpRequest(req)
  \/ \E r \in Routes(ver) : RemoveLog(r)

SpecDownload == InitDownload /\ [][NextDownload]_vars

\* The routes whose slug the path names (one or none).
SlugRoutes(path) == { r \in DOMAIN SLUGS : path = "/download/" \o SLUGS[r] }

\* C37: a download request with the configured credentials is answered
\* 200 with the lines the log of the route of its slug holds at that
\* moment when the slug is a route's and the log exists, and 404 otherwise;
\* every 200 of the endpoint carries the content of a route's log.
C37_DownloadServesRouteLog ==
  [][(ev'.type = "http" /\ ev'.req.path \in { q.path : q \in SlugRequests }) =>
       /\ ev'.req.auth = Basic(DOWNLOAD_USER, downloadPass) =>
            IF \E r \in SlugRoutes(ev'.req.path) : files[r].exists
            THEN /\ ev'.response.status = 200
                 /\ \A r \in SlugRoutes(ev'.req.path) : ev'.response.body = files'[r].lines
            ELSE ev'.response.status = 404
       /\ ev'.response.status = 200 =>
            \E r \in Routes("crossings") :
              files'[r].exists /\ ev'.response.body = files'[r].lines]_vars

\* The log of the last route is downloaded after the startup cycle wrote
\* its first row: the response holds the header and that row.
C37_Witness ==
  /\ ev.type = "http"
  /\ ev.req = Request("/download/astromeritis-n2s", Basic(DOWNLOAD_USER, DOWNLOAD_PASS))
  /\ ev.response.status = 200
  /\ hist.okPolls[4] = 1
  /\ ev.response.body = << CsvHeader(ver), CsvLine(ver, 4, readings[4][1]) >>

====
